---------------------------- MODULE Spec2Model ----------------------------
(***************************************************************************)
(* A model of the retrieval orchestration code of RAGnition:               *)
(*   retrieval/planner.py, tools.py, retrieval_memory.py,                  *)
(*   agentic_pipeline.py        -- the agentic planner loop                *)
(*   retrieval/critic.py        -- the lexical critic (IEEE doubles)       *)
(*   retrieval/query_rewriter.py, query_expander.py                        *)
(*   retrieval/hybrid_retriever.py -- the multi-variant merge              *)
(*   retrieval/self_improving_pipeline.py -- run_self_improving_retrieval  *)
(*                                                                         *)
(* Python strings are modelled as sequences of one-character strings, so   *)
(* that lower(), split(), concatenation and the substring test `k in q`    *)
(* are computed, not assumed.                                              *)
(***************************************************************************)
EXTENDS Integers, Sequences, FiniteSets, TLC

VARIABLES
    \* run_agentic_retrieval (agentic_pipeline.py)
    ag_pc, ag_query, ag_max_steps, ag_return_results, ag_step, ag_memory,
    ag_final_results, ag_dispatched, ag_returned,
    \* evaluate_retrieval (critic.py)
    cr_pc, cr_query, cr_docs, cr_build, cr_result,
    \* hybrid_retrieve (hybrid_retriever.py)
    hr_pc, hr_queries, hr_i, hr_merged_docs, hr_merged_meta, hr_docs,
    hr_metas, hr_responses,
    \* run_self_improving_retrieval (self_improving_pipeline.py)
    si_pc, si_query, si_max_attempts, si_generate_final_answer, si_searched,
    si_responses, si_text_chunks, si_image_chunks, si_vision_calls,
    si_generated, si_returned,
    \* adaptive_retrieve (adaptive_retriever.py)
    ar_pc, ar_analysis, ar_calls, ar_outcomes, ar_results,
    \* cross_rerank (cross_encoder_reranker.py) and rerank (reranker.py)
    rr_pc, rr_strategy, rr_docs, rr_top_k, rr_model_calls, rr_scores, rr_ranked, rr_result,
    \* MultimodalQueryRouter.analyze_query (multimodal_router.py)
    rt_pc, rt_query, rt_analysis,
    \* a tool of tools.py running run_advanced_retrieval (advanced_pipeline.py)
    ap_pc, ap_tool, ap_user_query, ap_query, ap_expand_calls, ap_expanded, ap_searched, ap_merged, ap_docs, ap_metas, ap_model_calls, ap_ranked_docs, ap_returned,
    \* rewrite_query (query_rewriter.py)
    rw_pc, rw_query, rw_attempt, rw_result,
    \* MultimodalRetrievalPipeline.retrieve
    mm_pc, mm_query, mm_image_top_k, mm_images, mm_tables, mm_analysis, mm_text_results, mm_image_results, mm_table_results, mm_vision_calls, mm_retrievals,
    \* two concurrent runs of run_agentic_retrieval
    cc_pc, cc_query, cc_max_steps, cc_step, cc_memory, cc_heap, cc_strategy, cc_final_results, cc_trace, cc_returned,
    \* two advanced retrieval passes over one collection
    dt_pc, dt_query, dt_collection, dt_scorer, dt_orders, dt_results,
    \* chunk_text
    ck_pc, ck_text, ck_chunk_size, ck_overlap, ck_start, ck_starts, ck_chunks

ag_vars == <<ag_pc, ag_query, ag_max_steps, ag_return_results, ag_step,
             ag_memory, ag_final_results, ag_dispatched, ag_returned>>

cr_vars == <<cr_pc, cr_query, cr_docs, cr_build, cr_result>>

hr_vars == <<hr_pc, hr_queries, hr_i, hr_merged_docs, hr_merged_meta, hr_docs,
             hr_metas, hr_responses>>

si_vars == <<si_pc, si_query, si_max_attempts, si_generate_final_answer,
             si_searched, si_responses, si_text_chunks, si_image_chunks,
             si_vision_calls, si_generated, si_returned>>

ar_vars == <<ar_pc, ar_analysis, ar_calls, ar_outcomes, ar_results>>

rr_vars == <<rr_pc, rr_strategy, rr_docs, rr_top_k, rr_model_calls, rr_scores, rr_ranked, rr_result>>

rt_vars == <<rt_pc, rt_query, rt_analysis>>

ap_vars == <<ap_pc, ap_tool, ap_user_query, ap_query, ap_expand_calls, ap_expanded, ap_searched, ap_merged, ap_docs, ap_metas, ap_model_calls, ap_ranked_docs, ap_returned>>

rw_vars == <<rw_pc, rw_query, rw_attempt, rw_result>>

mm_vars == <<mm_pc, mm_query, mm_image_top_k, mm_images, mm_tables, mm_analysis, mm_text_results, mm_image_results, mm_table_results, mm_vision_calls, mm_retrievals>>

cc_vars == <<cc_pc, cc_query, cc_max_steps, cc_step, cc_memory, cc_heap, cc_strategy, cc_final_results, cc_trace, cc_returned>>

dt_vars == <<dt_pc, dt_query, dt_collection, dt_scorer, dt_orders, dt_results>>

ck_vars == <<ck_pc, ck_text, ck_chunk_size, ck_overlap, ck_start, ck_starts, ck_chunks>>

vars == <<ag_vars, cr_vars, hr_vars, si_vars, ar_vars, rr_vars, rt_vars, ap_vars, rw_vars, mm_vars, cc_vars, dt_vars, ck_vars>>

\* the variables a run of one component leaves alone
not_ag == <<cr_vars, hr_vars, si_vars, ar_vars, rr_vars, rt_vars, ap_vars, rw_vars, mm_vars, cc_vars, dt_vars, ck_vars>>
not_cr == <<ag_vars, hr_vars, si_vars, ar_vars, rr_vars, rt_vars, ap_vars, rw_vars, mm_vars, cc_vars, dt_vars, ck_vars>>
not_hr == <<ag_vars, cr_vars, si_vars, ar_vars, rr_vars, rt_vars, ap_vars, rw_vars, mm_vars, cc_vars, dt_vars, ck_vars>>
not_si == <<ag_vars, cr_vars, hr_vars, ar_vars, rr_vars, rt_vars, ap_vars, rw_vars, mm_vars, cc_vars, dt_vars, ck_vars>>
not_ar == <<ag_vars, cr_vars, hr_vars, si_vars, rr_vars, rt_vars, ap_vars, rw_vars, mm_vars, cc_vars, dt_vars, ck_vars>>
not_rr == <<ag_vars, cr_vars, hr_vars, si_vars, ar_vars, rt_vars, ap_vars, rw_vars, mm_vars, cc_vars, dt_vars, ck_vars>>
not_rt == <<ag_vars, cr_vars, hr_vars, si_vars, ar_vars, rr_vars, ap_vars, rw_vars, mm_vars, cc_vars, dt_vars, ck_vars>>
not_ap == <<ag_vars, cr_vars, hr_vars, si_vars, ar_vars, rr_vars, rt_vars, rw_vars, mm_vars, cc_vars, dt_vars, ck_vars>>
not_rw == <<ag_vars, cr_vars, hr_vars, si_vars, ar_vars, rr_vars, rt_vars, ap_vars, mm_vars, cc_vars, dt_vars, ck_vars>>
not_mm == <<ag_vars, cr_vars, hr_vars, si_vars, ar_vars, rr_vars, rt_vars, ap_vars, rw_vars, cc_vars, dt_vars, ck_vars>>
not_cc == <<ag_vars, cr_vars, hr_vars, si_vars, ar_vars, rr_vars, rt_vars, ap_vars, rw_vars, mm_vars, dt_vars, ck_vars>>
not_dt == <<ag_vars, cr_vars, hr_vars, si_vars, ar_vars, rr_vars, rt_vars, ap_vars, rw_vars, mm_vars, cc_vars, ck_vars>>
not_ck == <<ag_vars, cr_vars, hr_vars, si_vars, ar_vars, rr_vars, rt_vars, ap_vars, rw_vars, mm_vars, cc_vars, dt_vars>>

-----------------------------------------------------------------------------
(* Bounds of the model                                                     *)

\* Number of vocabulary words a generated query is made of.
MaxQueryWords == 2
\* Largest max_steps argument tried for run_agentic_retrieval.
MaxStepsBound == 2
\* Critic inputs: distinct tokens in the query, query tokens a document
\* shares, documents in the candidate list.
MaxCriticQueryTokens == 9
MaxCriticOverlap == 2
MaxCriticDocs == 6
\* hybrid_retrieve inputs: query variants searched, results the collection
\* returns for one variant.
MaxVariants == 2
MaxPerQuery == 2
\* Largest max_attempts a request is started with.
MaxAttemptsBound == 3
\* Number of documents in a generated answer of the collection to the
\* self-improving pipeline.
MaxSIDocs == 2
\* Re-ranking inputs: number of candidates, largest score the external
\* model answers with, largest top_k besides the default.
MaxRerankDocs == 3
MaxScore == 2
MaxTopK == 3
\* Classifier queries: number of keywords of each vocabulary in a query.
MaxImageWords == 6
MaxTableWords == 8
MaxTextWords == 5
MaxCombinedWords == 1
\* Largest attempt number a rewrite is asked for.
MaxRewriteAttempt == 4

-----------------------------------------------------------------------------
(* Python str operations on sequences of characters                        *)

LowerAlpha == <<"a","b","c","d","e","f","g","h","i","j","k","l","m",
                "n","o","p","q","r","s","t","u","v","w","x","y","z">>
UpperAlpha == <<"A","B","C","D","E","F","G","H","I","J","K","L","M",
                "N","O","P","Q","R","S","T","U","V","W","X","Y","Z">>

LowerChar(c) ==
    IF \E i \in 1..26 : UpperAlpha[i] = c
    THEN LowerAlpha[CHOOSE i \in 1..26 : UpperAlpha[i] = c]
    ELSE c

\* str.lower()
Lower(t) == [ i \in 1..Len(t) |-> LowerChar(t[i]) ]

\* the substring test `k in t`
Contains(t, k) ==
    \E i \in 0..(Len(t) - Len(k)) : SubSeq(t, i + 1, i + Len(k)) = k

\* str.split(): the maximal runs of non-blank characters, in order
TokenStarts(t) ==
    { i \in 1..Len(t) : t[i] # " " /\ (i = 1 \/ t[i - 1] = " ") }

TokenEnd(t, i) ==
    CHOOSE j \in i..Len(t) :
        /\ \A k \in i..j : t[k] # " "
        /\ (j = Len(t) \/ t[j + 1] = " ")

Split(t) ==
    LET starts == TokenStarts(t)
        nth(k) == CHOOSE i \in starts :
                      Cardinality({ j \in starts : j < i }) = k - 1
    IN  [ k \in 1..Cardinality(starts) |->
            SubSeq(t, nth(k), TokenEnd(t, nth(k))) ]

Range(s) == { s[i] : i \in DOMAIN s }

\* " ".join(words)
RECURSIVE Join(_)
Join(ws) ==
    IF ws = <<>> THEN <<>>
    ELSE IF Len(ws) = 1 THEN ws[1]
    ELSE ws[1] \o <<" ">> \o Join(Tail(ws))

-----------------------------------------------------------------------------
(* Words the queries of the model are made of                              *)

W_Show     == <<"S","h","o","w">>
W_the      == <<"t","h","e">>
W_results  == <<"r","e","s","u","l","t","s">>
W_table    == <<"t","a","b","l","e">>
W_Compare  == <<"C","o","m","p","a","r","e">>
W_FIGURE   == <<"F","I","G","U","R","E">>
W_diagrams == <<"d","i","a","g","r","a","m","s">>
W_explain  == <<"e","x","p","l","a","i","n">>
W_methodology == <<"m","e","t","h","o","d","o","l","o","g","y">>
W_cats     == <<"c","a","t","s">>

Vocabulary == { W_results, W_table, W_Compare, W_FIGURE, W_diagrams,
                W_explain, W_methodology, W_cats }

\* the end-to-end scenario of the specification
ShowTheResultsTable == Join(<<W_Show, W_the, W_results, W_table>>)

WordSeqs == UNION { [1..n -> Vocabulary] : n \in 0..MaxQueryWords }

Queries == { Join(ws) : ws \in WordSeqs } \cup { ShowTheResultsTable }

-----------------------------------------------------------------------------
(* retrieval/planner.py                                                    *)

K_table   == <<"t","a","b","l","e">>
K_compare == <<"c","o","m","p","a","r","e">>
K_results == <<"r","e","s","u","l","t","s">>
K_figure  == <<"f","i","g","u","r","e">>
K_diagram == <<"d","i","a","g","r","a","m">>
K_explain == <<"e","x","p","l","a","i","n">>
K_method  == <<"m","e","t","h","o","d">>

Strategies == { "table", "figure", "semantic", "hybrid" }

\* A planner that tests the figure keywords before the table keywords.
plan_FigureFirst(query) ==
    LET q == Lower(query) IN
    [ query |-> query,
      strategy |->
        IF Contains(q, K_figure) \/ Contains(q, K_diagram) THEN "figure"
        ELSE IF Contains(q, K_table) \/ Contains(q, K_compare)
                \/ Contains(q, K_results) THEN "table"
        ELSE IF Contains(q, K_explain) \/ Contains(q, K_method) THEN "semantic"
        ELSE "hybrid" ]

plan(query) ==
    LET q == Lower(query) IN
    [ query |-> query,
      strategy |->
        IF Contains(q, K_table) \/ Contains(q, K_compare)
           \/ Contains(q, K_results) THEN "table"
        ELSE IF Contains(q, K_figure) \/ Contains(q, K_diagram) THEN "figure"
        ELSE IF Contains(q, K_explain) \/ Contains(q, K_method) THEN "semantic"
        ELSE "hybrid" ]

-----------------------------------------------------------------------------
(* retrieval/tools.py: every tool calls run_advanced_retrieval, which      *)
(* prints its ranking and returns nothing, and wraps that in a dict.       *)

S_table  == <<" ">> \o K_table
S_figure == <<" ">> \o K_figure

\* the query text a tool hands to run_advanced_retrieval
ToolQuery(strategy, query) ==
    CASE strategy = "table"  -> query \o S_table
      [] strategy = "figure" -> query \o S_figure
      [] OTHER               -> query

\* {"tool": <name>, "result": run_advanced_retrieval(...)}
ToolResult(strategy) == [ tool |-> strategy, result |-> "None" ]

\* Python's None where a tool result is expected
NoneResult == [ tool |-> "None", result |-> "None" ]

\* TOOLS[strategy](collection, query) seen from the caller: the call made
ToolCall(strategy, query) == [ tool |-> strategy, query |-> ToolQuery(strategy, query) ]

-----------------------------------------------------------------------------
(* retrieval/retrieval_memory.py                                           *)

\* RetrievalMemory.add
MemoryAdd(history, item) == Append(history, item)

-----------------------------------------------------------------------------
(* retrieval/agentic_pipeline.py: run_agentic_retrieval                    *)

AG_Init ==
    /\ ag_pc = "loop"
    /\ ag_query \in Queries
    /\ ag_max_steps \in 0..MaxStepsBound
    /\ ag_return_results \in BOOLEAN
    /\ ag_step = 0
    /\ ag_memory = <<>>
    /\ ag_final_results = NoneResult
    /\ ag_dispatched = <<>>
    /\ ag_returned = NoneResult

AG_Idle ==
    /\ ag_pc = "idle"
    /\ ag_query = <<>>
    /\ ag_max_steps = 0
    /\ ag_return_results = FALSE
    /\ ag_step = 0
    /\ ag_memory = <<>>
    /\ ag_final_results = NoneResult
    /\ ag_dispatched = <<>>
    /\ ag_returned = NoneResult

\* A step that leaves the loop after a hybrid plan as well.
AG_Step_StopsAfterHybrid ==
    /\ ag_pc = "loop"
    /\ ag_step < ag_max_steps
    /\ LET strategy == plan(ag_query).strategy IN
       /\ ag_dispatched' = Append(ag_dispatched, ToolCall(strategy, ag_query))
       /\ \/ /\ ag_final_results' = ToolResult(strategy)
             /\ ag_memory' = MemoryAdd(ag_memory,
                                [ step |-> ag_step + 1, strategy |-> strategy ])
             /\ IF strategy # "hybrid"
                THEN ag_pc' = "reflect" /\ ag_step' = ag_step
                ELSE ag_pc' = "finish" /\ ag_step' = ag_step + 1
          \/ /\ ag_pc' = "raised"
             /\ UNCHANGED <<ag_final_results, ag_memory, ag_step>>
    /\ UNCHANGED <<ag_query, ag_max_steps, ag_return_results, ag_returned>>
    /\ UNCHANGED not_ag

\* One pass of the loop body up to the reflection test: plan, dispatch the
\* planned tool (an external call that may raise), store its result, record
\* the step.
AG_Step ==
    /\ ag_pc = "loop"
    /\ ag_step < ag_max_steps
    /\ LET strategy == plan(ag_query).strategy IN
       /\ ag_dispatched' = Append(ag_dispatched, ToolCall(strategy, ag_query))
       /\ \/ /\ ag_final_results' = ToolResult(strategy)
             /\ ag_memory' = MemoryAdd(ag_memory,
                                [ step |-> ag_step + 1, strategy |-> strategy ])
             /\ IF strategy # "hybrid"
                THEN ag_pc' = "reflect" /\ ag_step' = ag_step
                ELSE ag_pc' = "loop" /\ ag_step' = ag_step + 1
          \/ /\ ag_pc' = "raised"
             /\ UNCHANGED <<ag_final_results, ag_memory, ag_step>>
    /\ UNCHANGED <<ag_query, ag_max_steps, ag_return_results, ag_returned>>
    /\ UNCHANGED not_ag

\* A reflection that keeps the planned tool's result.
AG_Reflect_KeepFirst ==
    /\ ag_pc = "reflect"
    /\ ag_dispatched' = Append(ag_dispatched, ToolCall("hybrid", ag_query))
    /\ \/ /\ ag_final_results' = ag_final_results
          /\ ag_memory' = MemoryAdd(ag_memory,
                             [ step |-> ag_step + 1, strategy |-> "hybrid" ])
          /\ ag_pc' = "finish"
       \/ /\ ag_pc' = "raised"
          /\ UNCHANGED <<ag_final_results, ag_memory>>
    /\ UNCHANGED <<ag_query, ag_max_steps, ag_return_results, ag_step, ag_returned>>
    /\ UNCHANGED not_ag

\* A reflection without the break: the loop goes on to the next step.
AG_Reflect_NoBreak ==
    /\ ag_pc = "reflect"
    /\ ag_dispatched' = Append(ag_dispatched, ToolCall("hybrid", ag_query))
    /\ \/ /\ ag_final_results' = ToolResult("hybrid")
          /\ ag_memory' = MemoryAdd(ag_memory,
                             [ step |-> ag_step + 1, strategy |-> "hybrid" ])
          /\ ag_pc' = "loop"
          /\ ag_step' = ag_step + 1
       \/ /\ ag_pc' = "raised"
          /\ UNCHANGED <<ag_final_results, ag_memory, ag_step>>
    /\ UNCHANGED <<ag_query, ag_max_steps, ag_return_results, ag_returned>>
    /\ UNCHANGED not_ag

\* The reflection: the planned strategy was not hybrid, so the hybrid tool is
\* dispatched, its result overwrites the stored one, the step is recorded
\* under the same index, and the loop is left (break).
AG_Reflect ==
    /\ ag_pc = "reflect"
    /\ ag_dispatched' = Append(ag_dispatched, ToolCall("hybrid", ag_query))
    /\ \/ /\ ag_final_results' = ToolResult("hybrid")
          /\ ag_memory' = MemoryAdd(ag_memory,
                             [ step |-> ag_step + 1, strategy |-> "hybrid" ])
          /\ ag_pc' = "finish"
       \/ /\ ag_pc' = "raised"
          /\ UNCHANGED <<ag_final_results, ag_memory>>
    /\ UNCHANGED <<ag_query, ag_max_steps, ag_return_results, ag_step, ag_returned>>
    /\ UNCHANGED not_ag

\* After the loop: the trace is printed and, if return_results, the stored
\* result is returned; otherwise the function returns None.
AG_Return ==
    /\ \/ ag_pc = "finish"
       \/ ag_pc = "loop" /\ ag_step >= ag_max_steps
    /\ ag_returned' = IF ag_return_results THEN ag_final_results ELSE NoneResult
    /\ ag_pc' = "done"
    /\ UNCHANGED <<ag_query, ag_max_steps, ag_return_results, ag_step,
                   ag_memory, ag_final_results, ag_dispatched>>
    /\ UNCHANGED not_ag

NextAgentic ==
    \/ AG_Step
    \/ AG_Reflect
    \/ AG_Return

-----------------------------------------------------------------------------
(* Claims about the agentic planner                                        *)

\* the strategy classes of section 4.7, stated on the lower-cased query
TableClass(q)    == Contains(q, K_table) \/ Contains(q, K_compare) \/ Contains(q, K_results)
FigureClass(q)   == Contains(q, K_figure) \/ Contains(q, K_diagram)
SemanticClass(q) == Contains(q, K_explain) \/ Contains(q, K_method)

\* the strategy the first step of the run was planned with
PlannedStrategy == ag_dispatched[1].tool

\* C5: when run_agentic_retrieval (max_steps >= 1) returns for a query planned
\* as table, figure or semantic, the RetrievalMemory trace has exactly two
\* entries, the planned strategy and then hybrid, both with step index 1, and
\* exactly two tools were dispatched whatever the step budget.
C5_ReflectionTrace ==
    (ag_pc = "done" /\ ag_max_steps >= 1
        /\ (TableClass(Lower(ag_query)) \/ FigureClass(Lower(ag_query))
            \/ SemanticClass(Lower(ag_query))))
    => /\ Len(ag_memory) = 2
       /\ ag_memory[1].step = 1 /\ ag_memory[2].step = 1
       /\ ag_memory[1].strategy \in { "table", "figure", "semantic" }
       /\ ag_memory[1].strategy = PlannedStrategy
       /\ ag_memory[2].strategy = "hybrid"
       /\ Len(ag_dispatched) = 2

\* "Show the results table" with a step budget of 2 ends with the trace
\* [{step 1, table}, {step 1, hybrid}].
C5_Witness ==
    /\ ag_pc = "done"
    /\ ag_query = ShowTheResultsTable
    /\ ag_max_steps = 2
    /\ ag_memory = << [ step |-> 1, strategy |-> "table" ],
                      [ step |-> 1, strategy |-> "hybrid" ] >>

\* C6: the strategy a step is planned with follows the ordered keyword rules,
\* first match wins: table iff a table-class keyword occurs; figure iff none
\* of those and a figure-class keyword occurs; semantic iff none of those and
\* a semantic-class keyword occurs; hybrid iff no keyword occurs; and it is
\* always one of the four strategies.
C6_PlanPriority ==
    \A i \in DOMAIN ag_dispatched :
        LET s == ag_dispatched[i].tool
            q == Lower(ag_query)
        IN  (i = 1 \/ ag_dispatched[i - 1].tool = "hybrid") =>
            /\ s \in Strategies
            /\ (s = "table") <=> TableClass(q)
            /\ (s = "figure") <=> (~TableClass(q) /\ FigureClass(q))
            /\ (s = "semantic") <=>
                   (~TableClass(q) /\ ~FigureClass(q) /\ SemanticClass(q))
            /\ (s = "hybrid") <=>
                   (~TableClass(q) /\ ~FigureClass(q) /\ ~SemanticClass(q))

\* A query with a figure keyword (upper case) and a table keyword, figure
\* first, was planned as table.
C6_Witness ==
    /\ ag_query = Join(<<W_FIGURE, W_Compare>>)
    /\ ag_dispatched # <<>>
    /\ PlannedStrategy = "table"

\* C7 as stated: the value run_agentic_retrieval returns is the result of the
\* last tool dispatched.
C7_ReturnedIsLastToolResult ==
    (ag_pc = "done" /\ ag_dispatched # <<>>)
    => ag_returned = ToolResult(ag_dispatched[Len(ag_dispatched)].tool)

\* C7 amended: at the return, final_results holds the result of the last tool
\* dispatched (no merging: after a reflection it is the hybrid tool's result,
\* not the planned tool's), and that is the value returned when
\* return_results is true; with return_results false None is returned.
C7_LastToolWins ==
    (ag_pc = "done" /\ ag_dispatched # <<>>)
    => /\ ag_final_results = ToolResult(ag_dispatched[Len(ag_dispatched)].tool)
       /\ (Len(ag_memory) = 2 /\ ag_memory[1].strategy # "hybrid")
             => (ag_final_results.tool = "hybrid"
                 /\ ag_final_results # ToolResult(ag_memory[1].strategy))
       /\ ag_returned = IF ag_return_results THEN ag_final_results ELSE NoneResult

\* A run planned as figure returned the hybrid tool's result.
C7_Witness ==
    /\ ag_pc = "done"
    /\ ag_return_results
    /\ Len(ag_memory) = 2
    /\ ag_memory[1].strategy = "figure"
    /\ ag_returned = ToolResult("hybrid")

-----------------------------------------------------------------------------
(* IEEE-754 binary64 arithmetic, as Python's float performs it.            *)
(* A finite value is a dyadic rational  (-1)^neg * bits * 2^exp , bits a   *)
(* binary numeral, most significant bit first.  In canonical form bits has *)
(* no leading and no trailing zero; zero is the empty numeral.  A double   *)
(* is a dyadic rational of at most 53 significant bits (the values of the  *)
(* critic are far from the overflow and subnormal ranges).                 *)

MantissaBits == 53

\* The element of a one-element set.  { F(v) : v \in { e } } evaluates e
\* once, before F is applied to its value; the recursive operators below use
\* this to hand a computed carry or remainder on as a value.
Value(S) == CHOOSE v \in S : TRUE

Zeros(n) == [ i \in 1..n |-> 0 ]

IsZeroBits(b) == \A i \in 1..Len(b) : b[i] = 0

StripLead(b) ==
    IF IsZeroBits(b) THEN <<>>
    ELSE LET first == CHOOSE i \in 1..Len(b) :
                          b[i] = 1 /\ \A j \in 1..(i - 1) : b[j] = 0
         IN  SubSeq(b, first, Len(b))

StripTrail(b) ==
    IF IsZeroBits(b) THEN <<>>
    ELSE LET last == CHOOSE i \in 1..Len(b) :
                         b[i] = 1 /\ \A j \in (i + 1)..Len(b) : b[j] = 0
         IN  SubSeq(b, 1, last)

FloatZero == [ neg |-> FALSE, bits |-> <<>>, exp |-> 0 ]

Canon(neg, bits, exp) ==
    LET b1 == StripLead(bits)
        b2 == StripTrail(b1)
    IN  IF b1 = <<>> THEN FloatZero
        ELSE [ neg |-> neg, bits |-> b2, exp |-> exp + (Len(b1) - Len(b2)) ]

\* the binary numeral of a natural number
RECURSIVE BitsOf(_)
BitsOf(n) == IF n = 0 THEN <<>> ELSE Append(BitsOf(n \div 2), n % 2)

\* int -> float (exact for the small integers of the critic)
IntToFloat(n) == Canon(FALSE, BitsOf(n), 0)

PadLead(b, len) == Zeros(len - Len(b)) \o b

\* Positions lo..hi of a + b + carry on numerals of equal length, and the
\* carry out of position lo (the low half is added first, then the high half
\* with its carry).
RECURSIVE AddRange(_, _, _, _, _)
AddRange(a, b, lo, hi, carry) ==
    IF lo > hi THEN [ bits |-> <<>>, carry |-> carry ]
    ELSE IF lo = hi
    THEN LET s == a[lo] + b[lo] + carry
         IN  [ bits |-> << s % 2 >>, carry |-> s \div 2 ]
    ELSE LET mid == (lo + hi) \div 2
             Upper(low) ==
                 LET high == AddRange(a, b, lo, mid, low.carry)
                 IN  [ bits |-> high.bits \o low.bits, carry |-> high.carry ]
         IN  Value({ Upper(low) : low \in { AddRange(a, b, mid + 1, hi, carry) } })

\* a + b + carry on numerals of equal length; the result is one bit longer
AddBits(a, b, carry) ==
    LET r == AddRange(a, b, 1, Len(a), carry) IN << r.carry >> \o r.bits

\* Positions lo..hi of a - b - borrow, and the borrow out of position lo.
RECURSIVE SubRange(_, _, _, _, _)
SubRange(a, b, lo, hi, borrow) ==
    IF lo > hi THEN [ bits |-> <<>>, borrow |-> borrow ]
    ELSE IF lo = hi
    THEN LET d == a[lo] - b[lo] - borrow
         IN  [ bits |-> << IF d < 0 THEN d + 2 ELSE d >>,
               borrow |-> IF d < 0 THEN 1 ELSE 0 ]
    ELSE LET mid == (lo + hi) \div 2
             Upper(low) ==
                 LET high == SubRange(a, b, lo, mid, low.borrow)
                 IN  [ bits |-> high.bits \o low.bits, borrow |-> high.borrow ]
         IN  Value({ Upper(low) : low \in { SubRange(a, b, mid + 1, hi, borrow) } })

\* a - b - borrow on numerals of equal length, a >= b
SubBits(a, b, borrow) == SubRange(a, b, 1, Len(a), borrow).bits

\* a < b on numerals of equal length
LessBits(a, b) ==
    \E i \in 1..Len(a) :
        /\ a[i] < b[i]
        /\ \A j \in 1..(i - 1) : a[j] = b[j]

FloatNeg(x) == IF x.bits = <<>> THEN x ELSE [ x EXCEPT !.neg = ~x.neg ]

\* the exact sum of two dyadic rationals
ExactAdd(x, y) ==
    LET e   == IF x.exp < y.exp THEN x.exp ELSE y.exp
        xs  == x.bits \o Zeros(x.exp - e)
        ys  == y.bits \o Zeros(y.exp - e)
        len == IF Len(xs) < Len(ys) THEN Len(ys) ELSE Len(xs)
        xa  == PadLead(xs, len)
        ya  == PadLead(ys, len)
    IN  IF x.neg = y.neg THEN Canon(x.neg, AddBits(xa, ya, 0), e)
        ELSE IF LessBits(xa, ya) THEN Canon(y.neg, SubBits(ya, xa, 0), e)
        ELSE Canon(x.neg, SubBits(xa, ya, 0), e)

\* round to nearest double, ties to even
RoundDouble(x) ==
    LET len == Len(x.bits) IN
    IF len <= MantissaBits THEN x
    ELSE LET keep   == SubSeq(x.bits, 1, MantissaBits)
             round  == x.bits[MantissaBits + 1]
             sticky == \E i \in (MantissaBits + 2)..len : x.bits[i] = 1
             up     == round = 1 /\ (sticky \/ keep[MantissaBits] = 1)
             kept   == IF up THEN AddBits(keep, PadLead(<<1>>, MantissaBits), 0)
                       ELSE keep
         IN  Canon(x.neg, kept, x.exp + (len - MantissaBits))

\* float + float, float - float
FloatAdd(x, y) == RoundDouble(ExactAdd(x, y))
FloatSub(x, y) == RoundDouble(ExactAdd(x, FloatNeg(y)))

\* x > y, x >= y and abs(x)
FloatGreater(x, y) ==
    LET d == ExactAdd(x, FloatNeg(y)) IN d.bits # <<>> /\ ~d.neg
FloatGeq(x, y) ==
    LET d == ExactAdd(x, FloatNeg(y)) IN d.bits = <<>> \/ ~d.neg
FloatAbs(x) == [ x EXCEPT !.neg = FALSE ]

\* Long division of positions lo..hi of a numeral by a small positive
\* integer d, entered with remainder r: the quotient bits of those positions
\* and the remainder left (the high half is divided first).
RECURSIVE LongDiv(_, _, _, _, _)
LongDiv(bits, d, lo, hi, r) ==
    IF lo > hi THEN [ q |-> <<>>, r |-> r ]
    ELSE IF lo = hi
    THEN LET r2 == 2 * r + bits[lo]
             qb == IF r2 >= d THEN 1 ELSE 0
         IN  [ q |-> << qb >>, r |-> r2 - qb * d ]
    ELSE LET mid == (lo + hi) \div 2
             Lower2(high) ==
                 LET low == LongDiv(bits, d, mid + 1, hi, high.r)
                 IN  [ q |-> high.q \o low.q, r |-> low.r ]
         IN  Value({ Lower2(high) : high \in { LongDiv(bits, d, lo, mid, r) } })

\* x / d correctly rounded, d a small positive integer: the quotient is
\* developed 64 bits below the dividend's last bit (more than 53 significant
\* bits and a rounding bit for every dividend and divisor of the critic), and
\* a non-zero remainder is kept as one more low bit, so that RoundDouble sees
\* on which side of a tie the exact quotient lies.
FloatDivInt(x, d) ==
    IF x.bits = <<>> THEN FloatZero
    ELSE LET num == x.bits \o Zeros(64)
             res == LongDiv(num, d, 1, Len(num), 0)
             low == IF res.r # 0 THEN 1 ELSE 0
         IN  RoundDouble(Canon(x.neg, Append(res.q, low), x.exp - 65))

\* int / int (Python's true division: the correctly rounded quotient)
IntTrueDiv(a, d) == FloatDivInt(IntToFloat(a), d)

\* sum() of a list of floats, CPython up to 3.11: start at 0, add left to right
RECURSIVE SumLeftToRight(_, _)
SumLeftToRight(xs, acc) ==
    IF xs = <<>> THEN acc
    ELSE SumLeftToRight(Tail(xs), FloatAdd(acc, Head(xs)))

\* sum() of a list of floats, CPython from 3.12: Neumaier's compensated sum
RECURSIVE SumCompensated(_, _, _)
SumCompensated(xs, f, c) ==
    IF xs = <<>> THEN (IF c.bits # <<>> THEN FloatAdd(f, c) ELSE f)
    ELSE LET x == Head(xs)
             t == FloatAdd(f, x)
             e == IF FloatGeq(FloatAbs(f), FloatAbs(x))
                  THEN FloatAdd(FloatSub(f, t), x)
                  ELSE FloatAdd(FloatSub(x, t), f)
         IN  SumCompensated(Tail(xs), t, FloatAdd(c, e))

PythonBuilds == { "sum_left_to_right", "sum_compensated" }

PySum(build, xs) ==
    IF xs = <<>> THEN FloatZero
    ELSE IF build = "sum_compensated"
         THEN SumCompensated(Tail(xs), Head(xs), FloatZero)
         ELSE SumLeftToRight(xs, FloatZero)

-----------------------------------------------------------------------------
(* retrieval/critic.py: evaluate_retrieval                                 *)

\* docs[:5]
CriticTopN == 5

\* set(text.lower().split())
Tokens(text) == Range(Split(Lower(text)))

\* the literal 0.15: the double nearest to 15/100
Threshold == IntTrueDiv(15, 100)

\* the critic with the strict comparison replaced by >=
evaluate_retrieval_Geq(build, query, docs) ==
    IF docs = <<>> THEN [ score |-> FloatZero, decision |-> "retry" ]
    ELSE LET q_words == Tokens(query)
             top     == SubSeq(docs, 1, IF Len(docs) < CriticTopN
                                        THEN Len(docs) ELSE CriticTopN)
             overlap_scores ==
                 [ i \in 1..Len(top) |->
                     IntTrueDiv(Cardinality(q_words \cap Tokens(top[i])),
                                Cardinality(q_words) + 1) ]
             score == FloatDivInt(PySum(build, overlap_scores), Len(top))
         IN  [ score |-> score,
               decision |-> IF FloatGeq(score, Threshold)
                            THEN "good" ELSE "retry" ]

\* evaluate_retrieval(query, docs); build is the CPython the code runs on,
\* which decides how sum() adds the overlaps
evaluate_retrieval(build, query, docs) ==
    IF docs = <<>> THEN [ score |-> FloatZero, decision |-> "retry" ]
    ELSE LET q_words == Tokens(query)
             top     == SubSeq(docs, 1, IF Len(docs) < CriticTopN
                                        THEN Len(docs) ELSE CriticTopN)
             overlap_scores ==
                 [ i \in 1..Len(top) |->
                     IntTrueDiv(Cardinality(q_words \cap Tokens(top[i])),
                                Cardinality(q_words) + 1) ]
             score == FloatDivInt(PySum(build, overlap_scores), Len(top))
         IN  [ score |-> score,
               decision |-> IF FloatGreater(score, Threshold)
                            THEN "good" ELSE "retry" ]

\* Inputs of the critic: a query of n distinct upper-case one-letter tokens,
\* and documents that repeat the first k of them in lower case and add a
\* token the query does not have.
CriticQuery(n) == Join([ i \in 1..n |-> << UpperAlpha[i] >> ])

CriticDoc(k) ==
    LET shared == [ i \in 1..k |-> << LowerAlpha[i] >> ]
    IN  Join(shared \o shared \o << <<"z","z">> >>)

CriticQueries == { CriticQuery(n) : n \in 0..MaxCriticQueryTokens }

CriticDocPool == { CriticDoc(k) : k \in 0..MaxCriticOverlap }

CriticDocLists == UNION { [1..n -> CriticDocPool] : n \in 0..MaxCriticDocs }

CR_Init ==
    /\ cr_pc = "call"
    /\ cr_query \in CriticQueries
    /\ cr_docs \in CriticDocLists
    /\ cr_build \in PythonBuilds
    /\ cr_result = [ score |-> FloatZero, decision |-> "none" ]

CR_Idle ==
    /\ cr_pc = "idle"
    /\ cr_query = <<>>
    /\ cr_docs = <<>>
    /\ cr_build = "sum_left_to_right"
    /\ cr_result = [ score |-> FloatZero, decision |-> "none" ]

CR_Evaluate ==
    /\ cr_pc = "call"
    /\ cr_result' = evaluate_retrieval(cr_build, cr_query, cr_docs)
    /\ cr_pc' = "done"
    /\ UNCHANGED <<cr_query, cr_docs, cr_build>>
    /\ UNCHANGED not_cr

NextCritic == CR_Evaluate

-----------------------------------------------------------------------------
(* Claims about the critic                                                 *)

\* || of the query tokens a candidate shares, summed over the candidates
RECURSIVE SharedTotal(_, _)
SharedTotal(q_words, docs) ==
    IF docs = <<>> THEN 0
    ELSE Cardinality(q_words \cap Tokens(Head(docs)))
         + SharedTotal(q_words, Tail(docs))

FirstFive(docs) == SubSeq(docs, 1, IF Len(docs) < 5 THEN Len(docs) ELSE 5)

\* the average overlap of the first <= 5 candidates, in exact arithmetic:
\*    total / (n * (|q| + 1))  compared with  15 / 100
ExactAverageExceeds(query, docs) ==
    100 * SharedTotal(Tokens(query), FirstFive(docs))
        > 15 * Len(FirstFive(docs)) * (Cardinality(Tokens(query)) + 1)

ExactAverageIsThreshold(query, docs) ==
    100 * SharedTotal(Tokens(query), FirstFive(docs))
        = 15 * Len(FirstFive(docs)) * (Cardinality(Tokens(query)) + 1)

\* C8: for a non-empty candidate list the critic answers good iff the average
\* overlap |q & d| / (|q| + 1) of the first min(5, n) candidates is strictly
\* greater than 0.15 (so an average of exactly 0.15 gives retry, and the
\* candidates after the fifth have no influence).
C8_GoodIffAverageAbove ==
    (cr_pc = "done" /\ cr_docs # <<>>)
    => ((cr_result.decision = "good") <=> ExactAverageExceeds(cr_query, cr_docs))

-----------------------------------------------------------------------------
(* retrieval/query_expander.py                                             *)

S_explanation == <<" ","e","x","p","l","a","n","a","t","i","o","n">>
S_details     == <<" ","d","e","t","a","i","l","s">>
S_summary     == <<" ","s","u","m","m","a","r","y">>

\* the list `expansions` of expand_query
Expansions(query) ==
    << query, query \o S_explanation, query \o S_details, query \o S_summary >>

-----------------------------------------------------------------------------
(* retrieval/hybrid_retriever.py: hybrid_retrieve                          *)

\* Documents and metadata the collection can answer with.  A collection
\* answer holds parallel arrays: the i-th metadata belongs to the i-th
\* document.
Doc_cats   == <<"c","a","t","s"," ","p","u","r","r">>
Doc_tables == <<"T","a","b","l","e"," ","2">>
Meta_p1 == [ source |-> "paper.pdf", page |-> 1 ]
Meta_p2 == [ source |-> "paper.pdf", page |-> 2 ]

Hits == { <<Doc_cats, Meta_p1>>, <<Doc_cats, Meta_p2>>, <<Doc_tables, Meta_p1>> }

HitLists == UNION { [1..n -> Hits] : n \in 0..MaxPerQuery }

\* res = collection.query(...): {"documents": [[...]], "metadatas": [[...]]}
Response(hits) ==
    [ documents |-> [ i \in 1..Len(hits) |-> hits[i][1] ],
      metadatas |-> [ i \in 1..Len(hits) |-> hits[i][2] ] ]

Responses == { Response(h) : h \in HitLists }

HR_BaseQuery == W_cats

\* zip(merged_docs, merged_meta)
Zip(xs, ys) ==
    [ i \in 1..(IF Len(xs) < Len(ys) THEN Len(xs) ELSE Len(ys)) |-> <<xs[i], ys[i]>> ]

\* A deduplication in which a later duplicate overwrites the stored metadata.
RECURSIVE Deduplicate_LastWins(_, _, _)
Deduplicate_LastWins(pairs, docs, metas) ==
    IF pairs = <<>> THEN [ docs |-> docs, metas |-> metas ]
    ELSE LET d == Head(pairs)[1]
             m == Head(pairs)[2]
         IN  IF \E i \in DOMAIN docs : docs[i] = d
             THEN Deduplicate_LastWins(Tail(pairs), docs,
                      [ i \in DOMAIN metas |-> IF docs[i] = d THEN m ELSE metas[i] ])
             ELSE Deduplicate_LastWins(Tail(pairs), Append(docs, d), Append(metas, m))

\* The dict `unique` filled from the pairs left to right (`if d not in
\* unique: unique[d] = m`), as its keys and values in insertion order.
RECURSIVE Deduplicate(_, _, _)
Deduplicate(pairs, docs, metas) ==
    IF pairs = <<>> THEN [ docs |-> docs, metas |-> metas ]
    ELSE LET d == Head(pairs)[1]
             m == Head(pairs)[2]
         IN  IF \E i \in DOMAIN docs : docs[i] = d
             THEN Deduplicate(Tail(pairs), docs, metas)
             ELSE Deduplicate(Tail(pairs), Append(docs, d), Append(metas, m))

HR_Init ==
    /\ hr_pc = "loop"
    /\ hr_queries \in { SubSeq(Expansions(HR_BaseQuery), 1, n) : n \in 0..MaxVariants }
    /\ hr_i = 1
    /\ hr_merged_docs = <<>>
    /\ hr_merged_meta = <<>>
    /\ hr_docs = <<>>
    /\ hr_metas = <<>>
    /\ hr_responses = <<>>

HR_Idle ==
    /\ hr_pc = "idle"
    /\ hr_queries = <<>>
    /\ hr_i = 1
    /\ hr_merged_docs = <<>>
    /\ hr_merged_meta = <<>>
    /\ hr_docs = <<>>
    /\ hr_metas = <<>>
    /\ hr_responses = <<>>

\* One pass of `for q in expanded_queries`: the vector search for q (an
\* external call, which may raise: the exception leaves hybrid_retrieve) and
\* the two extends.
HR_Query ==
    /\ hr_pc = "loop"
    /\ hr_i <= Len(hr_queries)
    /\ \/ \E res \in Responses :
             /\ hr_responses' = Append(hr_responses,
                                    [ query |-> hr_queries[hr_i],
                                      documents |-> res.documents,
                                      metadatas |-> res.metadatas ])
             /\ hr_merged_docs' = hr_merged_docs \o res.documents
             /\ hr_merged_meta' = hr_merged_meta \o res.metadatas
             /\ hr_i' = hr_i + 1
             /\ hr_pc' = "loop"
       \/ /\ hr_pc' = "raised"
          /\ UNCHANGED <<hr_responses, hr_merged_docs, hr_merged_meta, hr_i>>
    /\ UNCHANGED <<hr_queries, hr_docs, hr_metas>>
    /\ UNCHANGED not_hr

\* After the loop: deduplicate and return (docs, metas).
HR_Return ==
    /\ hr_pc = "loop"
    /\ hr_i > Len(hr_queries)
    /\ LET unique == Deduplicate(Zip(hr_merged_docs, hr_merged_meta), <<>>, <<>>)
       IN  /\ hr_docs' = unique.docs
           /\ hr_metas' = unique.metas
    /\ hr_pc' = "done"
    /\ UNCHANGED <<hr_queries, hr_i, hr_merged_docs, hr_merged_meta, hr_responses>>
    /\ UNCHANGED not_hr

NextHybrid ==
    \/ HR_Query
    \/ HR_Return

-----------------------------------------------------------------------------
(* Claims about hybrid_retrieve                                            *)

\* everything the collection returned, in variant order
RECURSIVE AllDocuments(_)
AllDocuments(responses) ==
    IF responses = <<>> THEN <<>>
    ELSE Head(responses).documents \o AllDocuments(Tail(responses))

RECURSIVE AllMetadatas(_)
AllMetadatas(responses) ==
    IF responses = <<>> THEN <<>>
    ELSE Head(responses).metadatas \o AllMetadatas(Tail(responses))

FirstIndex(seq, x) ==
    CHOOSE i \in DOMAIN seq : seq[i] = x /\ \A j \in 1..(i - 1) : seq[j] # x

\* C10: hybrid_retrieve returns exactly the distinct document contents among
\* all variants' results, each once, in the order each was first seen, paired
\* with the metadata of its first occurrence in variant order.
C10_DistinctFirstSeen ==
    hr_pc = "done" =>
        LET all  == AllDocuments(hr_responses)
            meta == AllMetadatas(hr_responses)
        IN  /\ Range(hr_docs) = Range(all)
            /\ Len(hr_docs) = Cardinality(Range(all))
            /\ Len(hr_metas) = Len(hr_docs)
            /\ \A i, j \in DOMAIN hr_docs :
                   i < j => FirstIndex(all, hr_docs[i]) < FirstIndex(all, hr_docs[j])
            /\ \A i \in DOMAIN hr_docs :
                   hr_metas[i] = meta[FirstIndex(all, hr_docs[i])]

\* Two variants return the same document under different metadata, the first
\* after another document: the output keeps first-seen order and the first
\* variant's metadata.
C10_Witness ==
    /\ hr_pc = "done"
    /\ Len(hr_responses) = 2
    /\ hr_responses[1].query = W_cats
    /\ hr_responses[1].documents = << Doc_tables, Doc_cats >>
    /\ hr_responses[1].metadatas = << Meta_p1, Meta_p2 >>
    /\ hr_responses[2].query = W_cats \o S_explanation
    /\ hr_responses[2].documents = << Doc_cats >>
    /\ hr_responses[2].metadatas = << Meta_p1 >>
    /\ hr_docs = << Doc_tables, Doc_cats >>
    /\ hr_metas = << Meta_p1, Meta_p2 >>

\* C11: a vector search that raises for one variant never aborts the merge
\* (hybrid_retrieve is never left by an exception while variants remain).
C11_MergeNeverAborted ==
    ~(hr_pc = "raised" /\ hr_i <= Len(hr_queries))

-----------------------------------------------------------------------------
(* retrieval/query_rewriter.py: rewrite_query                              *)

S_detailed_explanation ==
    <<" ","d","e","t","a","i","l","e","d"," ",
      "e","x","p","l","a","n","a","t","i","o","n">>
S_research_paper ==
    <<" ","r","e","s","e","a","r","c","h"," ","p","a","p","e","r">>
S_methodology_results ==
    <<" ","m","e","t","h","o","d","o","l","o","g","y"," ",
      "r","e","s","u","l","t","s"," ","f","i","g","u","r","e","s"," ",
      "t","a","b","l","e","s">>

RewriteSuffixes ==
    { S_detailed_explanation, S_research_paper, S_methodology_results }

\* A rewrite that gives the second attempt the words of the later ones.
rewrite_query_FromSecond(query, attempt) ==
    IF attempt = 1 THEN query \o S_detailed_explanation
    ELSE query \o S_methodology_results

rewrite_query(query, attempt) ==
    IF attempt = 1 THEN query \o S_detailed_explanation
    ELSE IF attempt = 2 THEN query \o S_research_paper
    ELSE query \o S_methodology_results

-----------------------------------------------------------------------------
(* retrieval/self_improving_pipeline.py: run_self_improving_retrieval      *)

\* collection.query(query_texts=[query], n_results=15)
SI_NResults == 15
\* all_docs[:10]
SI_TopDocs == 10
\* image_chunks[:2]
SI_TopImages == 2
\* the default of max_attempts
SI_DefaultMaxAttempts == 3

K_ImageMarker == <<"I","m","a","g","e",":">>

Doc_image_marker == <<"I","m","a","g","e",":"," ","f","i","g">>
Doc_fig1 == <<"f","i","g"," ","1">>
Doc_fig2 == <<"f","i","g"," ","2">>

\* a metadata dict, by what meta.get(key, "") answers for the keys read
SI_Meta_empty  == [ modality |-> "", path |-> "", filename |-> "", page |-> "" ]
SI_Meta_text   == [ modality |-> "text", path |-> "", filename |-> "",
                    page |-> "1" ]
SI_Meta_image1 == [ modality |-> "image", path |-> "img1.png",
                    filename |-> "img1.png", page |-> "2" ]
SI_Meta_image2 == [ modality |-> "image", path |-> "img2.png",
                    filename |-> "img2.png", page |-> "3" ]

SI_Hits == { <<Doc_cats, SI_Meta_text>>, <<Doc_tables, SI_Meta_text>>,
             <<Doc_image_marker, SI_Meta_empty>>,
             <<Doc_fig1, SI_Meta_image1>>, <<Doc_fig2, SI_Meta_image2>> }

SI_HitLists == UNION { [1..n -> SI_Hits] : n \in 0..MaxSIDocs }

\* an answer longer than the ten documents the pipeline keeps
SI_LongHits ==
    [ i \in 1..(SI_TopDocs + 1) |->
        IF i > SI_TopDocs THEN <<Doc_fig1, SI_Meta_image1>>
        ELSE <<Doc_tables, SI_Meta_text>> ]

\* raw = collection.query(...); has_metadatas is `"metadatas" in raw`
SI_Response(hits, has_metadatas) ==
    [ documents |-> [ i \in 1..Len(hits) |-> hits[i][1] ],
      metadatas |-> IF has_metadatas
                    THEN [ i \in 1..Len(hits) |-> hits[i][2] ]
                    ELSE <<>> ]

SI_Responses ==
    { SI_Response(h, m) : h \in SI_HitLists \cup { SI_LongHits },
                          m \in BOOLEAN }

SI_Queries == { W_cats, ShowTheResultsTable }

NoVision == [ caption |-> <<>>, description |-> <<>> ]

\* the fields of a successful analyze_image answer that the pipeline keeps
VisionAnalysis(path) ==
    [ caption |-> <<"caption", path>>, description |-> <<"description", path>> ]

\* what the vision step can meet for one image
VisionOutcomes == { "no_file", "success", "not_success", "raise" }

\* what generate_answer returns as "answer"
GenerationOutcomes == { "generated answer", "generator error message" }

TextChunk(doc, meta) ==
    [ kind |-> "text", text |-> doc, path |-> "", filename |-> "",
      page |-> "", metadata |-> meta, vision_analysis |-> NoVision ]

ImageChunk(doc, meta) ==
    [ kind |-> "image", text |-> doc, path |-> meta.path,
      filename |-> meta.filename, page |-> meta.page, metadata |-> meta,
      vision_analysis |-> NoVision ]

\* A test that trusts the metadata only.
IsImage_MetadataOnly(doc, meta) ==
    meta.modality = "image"

IsImage(doc, meta) ==
    meta.modality = "image" \/ Contains(doc, K_ImageMarker)

\* STEP 3: the chunks of one kind among the first ten documents, in order
RECURSIVE Partition(_, _, _, _)
Partition(docs, metas, i, image) ==
    IF i > Len(docs) \/ i > SI_TopDocs THEN <<>>
    ELSE LET meta == IF i <= Len(metas) THEN metas[i] ELSE SI_Meta_empty
             rest == Partition(docs, metas, i + 1, image)
         IN  IF IsImage(docs[i], meta) = image
             THEN << IF image THEN ImageChunk(docs[i], meta)
                     ELSE TextChunk(docs[i], meta) >> \o rest
             ELSE rest

\* STEP 6: context_text, as the list of the pieces concatenated: the text
\* of each text chunk, then for each image chunk with a vision analysis the
\* line "[IMAGE: <filename>]", its caption line and its description line
BuildContext(text_chunks, image_chunks) ==
    [ i \in 1..Len(text_chunks) |->
        [ block |-> "text", kind |-> "content", value |-> text_chunks[i].text ] ]
    \o
    LET analysed == SelectSeq(image_chunks,
                              LAMBDA c : c.vision_analysis # NoVision)
    IN  [ p \in 1..(3 * Len(analysed)) |->
            LET chunk == analysed[((p - 1) \div 3) + 1]
                line  == (p - 1) % 3
            IN  IF line = 0
                THEN [ block |-> "image", kind |-> "header",
                       value |-> chunk.filename ]
                ELSE IF line = 1
                THEN [ block |-> "image", kind |-> "content",
                       value |-> chunk.vision_analysis.caption ]
                ELSE [ block |-> "image", kind |-> "content",
                       value |-> chunk.vision_analysis.description ] ]

SI_NoReturn ==
    [ response |-> "", source_chunks |-> <<>>, query_used |-> <<>>,
      original_query |-> <<>>, text_sources |-> 0, image_sources |-> 0,
      chunks_count |-> 0 ]

SI_Init ==
    /\ si_pc = "start"
    /\ si_query \in SI_Queries
    /\ si_max_attempts \in 0..MaxAttemptsBound
    /\ si_generate_final_answer \in BOOLEAN
    /\ si_searched = <<>>
    /\ si_responses = <<>>
    /\ si_text_chunks = <<>>
    /\ si_image_chunks = <<>>
    /\ si_vision_calls = <<>>
    /\ si_generated = <<>>
    /\ si_returned = SI_NoReturn

SI_Idle ==
    /\ si_pc = "idle"
    /\ si_query = <<>>
    /\ si_max_attempts = 0
    /\ si_generate_final_answer = FALSE
    /\ si_searched = <<>>
    /\ si_responses = <<>>
    /\ si_text_chunks = <<>>
    /\ si_image_chunks = <<>>
    /\ si_vision_calls = <<>>
    /\ si_generated = <<>>
    /\ si_returned = SI_NoReturn

\* A retrieval step that searches twice and keeps the first answer.
SI_Retrieve_Twice ==
    /\ si_pc = "start"
    /\ \E raw \in SI_Responses, again \in SI_Responses :
          /\ si_searched' = si_searched
                \o << [ query_texts |-> <<si_query>>, n_results |-> SI_NResults ],
                      [ query_texts |-> <<si_query>>, n_results |-> SI_NResults ] >>
          /\ si_responses' = si_responses \o <<raw, again>>
          /\ si_text_chunks' = Partition(raw.documents, raw.metadatas, 1, FALSE)
          /\ si_image_chunks' = Partition(raw.documents, raw.metadatas, 1, TRUE)
          /\ si_pc' = "vision"
    /\ UNCHANGED <<si_query, si_max_attempts, si_generate_final_answer,
                   si_vision_calls, si_generated, si_returned>>
    /\ UNCHANGED not_si

\* A retrieval step that searches a twice-rewritten text.
SI_Retrieve_Compounded ==
    /\ si_pc = "start"
    /\ \E raw \in SI_Responses :
          /\ si_searched' = Append(si_searched,
                [ query_texts |-> << rewrite_query(rewrite_query(si_query, 1), 2) >>,
                  n_results |-> SI_NResults ])
          /\ si_responses' = Append(si_responses, raw)
          /\ si_text_chunks' = Partition(raw.documents, raw.metadatas, 1, FALSE)
          /\ si_image_chunks' = Partition(raw.documents, raw.metadatas, 1, TRUE)
          /\ si_pc' = "vision"
    /\ UNCHANGED <<si_query, si_max_attempts, si_generate_final_answer,
                   si_vision_calls, si_generated, si_returned>>
    /\ UNCHANGED not_si

\* STEPS 2-3: the one search of the request and the split of its answer.
\* An exception of collection.query is not caught.
SI_Retrieve ==
    /\ si_pc = "start"
    /\ si_searched' = Append(si_searched,
          [ query_texts |-> <<si_query>>, n_results |-> SI_NResults ])
    /\ \/ \E raw \in SI_Responses :
             /\ si_responses' = Append(si_responses, raw)
             /\ si_text_chunks' =
                    Partition(raw.documents, raw.metadatas, 1, FALSE)
             /\ si_image_chunks' =
                    Partition(raw.documents, raw.metadatas, 1, TRUE)
             /\ si_pc' = "vision"
       \/ /\ si_pc' = "raised"
          /\ UNCHANGED <<si_responses, si_text_chunks, si_image_chunks>>
    /\ UNCHANGED <<si_query, si_max_attempts, si_generate_final_answer,
                   si_vision_calls, si_generated, si_returned>>
    /\ UNCHANGED not_si

\* the images the vision loop reaches before an exception ends it
Reached(outcomes) ==
    { i \in DOMAIN outcomes : \A j \in 1..(i - 1) : outcomes[j] # "raise" }

\* STEP 4: vision analysis of the first two image chunks; any exception
\* (of get_vision_generator or of analyze_image) ends the step quietly.
SI_Vision ==
    /\ si_pc = "vision"
    /\ \/ /\ si_image_chunks = <<>>
          /\ UNCHANGED <<si_image_chunks, si_vision_calls>>
       \/ /\ si_image_chunks # <<>>
          /\ \E generator_ok \in BOOLEAN :
             \E outcomes \in
                  [ 1..(IF Len(si_image_chunks) < SI_TopImages
                        THEN Len(si_image_chunks) ELSE SI_TopImages)
                    -> VisionOutcomes ] :
                /\ \A i \in DOMAIN outcomes :
                      si_image_chunks[i].path = "" => outcomes[i] = "no_file"
                /\ LET reached == IF generator_ok THEN Reached(outcomes)
                                  ELSE {}
                       called  == { i \in reached : outcomes[i] # "no_file" }
                       nth(k)  == CHOOSE i \in called :
                                      Cardinality({ j \in called : j < i })
                                          = k - 1
                   IN  /\ si_vision_calls' = si_vision_calls \o
                              [ k \in 1..Cardinality(called) |->
                                  [ path |-> si_image_chunks[nth(k)].path,
                                    outcome |-> outcomes[nth(k)] ] ]
                       /\ si_image_chunks' =
                              [ i \in DOMAIN si_image_chunks |->
                                  IF i \in called /\ outcomes[i] = "success"
                                  THEN [ si_image_chunks[i] EXCEPT
                                           !.vision_analysis =
                                             VisionAnalysis(si_image_chunks[i].path) ]
                                  ELSE si_image_chunks[i] ]
    /\ si_pc' = "generate"
    /\ UNCHANGED <<si_query, si_max_attempts, si_generate_final_answer,
                   si_searched, si_responses, si_text_chunks, si_generated,
                   si_returned>>
    /\ UNCHANGED not_si

\* STEPS 5-6 and the return
SI_Generate ==
    /\ si_pc = "generate"
    /\ LET all_chunks == si_text_chunks \o si_image_chunks
           result(answer) ==
               [ response |-> answer, source_chunks |-> all_chunks,
                 query_used |-> si_query, original_query |-> si_query,
                 text_sources |-> Len(si_text_chunks),
                 image_sources |-> Len(si_image_chunks),
                 chunks_count |-> Len(all_chunks) ]
       IN  \/ /\ si_generate_final_answer /\ all_chunks # <<>>
              /\ si_generated' = Append(si_generated,
                    [ query |-> si_query,
                      context |-> BuildContext(si_text_chunks, si_image_chunks) ])
              /\ \E answer \in GenerationOutcomes :
                    si_returned' = result(answer)
           \/ /\ ~(si_generate_final_answer /\ all_chunks # <<>>)
              /\ si_generated' = si_generated
              /\ si_returned' = result("Answer generation disabled")
    /\ si_pc' = "done"
    /\ UNCHANGED <<si_query, si_max_attempts, si_generate_final_answer,
                   si_searched, si_responses, si_text_chunks, si_image_chunks,
                   si_vision_calls>>
    /\ UNCHANGED not_si

NextSelfImproving == SI_Retrieve \/ SI_Vision \/ SI_Generate

-----------------------------------------------------------------------------
(* Properties of run_self_improving_retrieval                              *)

\* the documents the critic of the specification would be given
LastDocuments == si_responses[Len(si_responses)].documents

Kept(docs) ==
    SubSeq(docs, 1, IF Len(docs) < SI_TopDocs THEN Len(docs) ELSE SI_TopDocs)

ReturnedTexts ==
    [ i \in 1..Len(si_returned.source_chunks) |->
        si_returned.source_chunks[i].text ]

\* how often a text occurs in a list
Occurrences(s, x) == Cardinality({ i \in DOMAIN s : s[i] = x })

ReturnedAreLastAttempt ==
    /\ si_responses # <<>>
    /\ Len(ReturnedTexts) = Len(Kept(LastDocuments))
    /\ \A d \in Range(LastDocuments) :
          Occurrences(ReturnedTexts, d) = Occurrences(Kept(LastDocuments), d)

JudgedRetry(docs) ==
    \A b \in PythonBuilds :
        evaluate_retrieval(b, si_query, docs).decision = "retry"

SearchedTexts == [ i \in 1..Len(si_searched) |-> si_searched[i].query_texts[1] ]

\* C1: with max_attempts >= 1 a request issues at most max_attempts
\* searches and always ends; when it returns, the candidates it returns are
\* exactly the kept documents of the last search.
C1_TerminatesWithinBudget ==
    /\ [](si_max_attempts >= 1 =>
            /\ Len(si_searched) <= si_max_attempts
            /\ si_pc = "done" => ReturnedAreLastAttempt)
    /\ <>(si_pc \in {"done", "raised"})

\* C1 witness: a request with a budget of one attempt whose only attempt
\* the critic judges retry has returned that attempt's candidates.
C1_Witness ==
    /\ si_pc = "done"
    /\ si_max_attempts = 1
    /\ Len(si_searched) = 1
    /\ LastDocuments # <<>>
    /\ si_returned.source_chunks # <<>>
    /\ JudgedRetry(LastDocuments)

\* C2: a request ends only after an attempt the critic judges good or
\* once max_attempts searches were issued (a retry verdict below the budget
\* leads to a further attempt).
C2_RetryLeadsToNextAttempt ==
    si_pc = "done" =>
        \/ Len(si_searched) >= si_max_attempts
        \/ ~JudgedRetry(LastDocuments)

C4_HybridPassRan ==
    si_pc = "done" =>
        \A v \in Range(Expansions(si_query)) : v \in Range(SearchedTexts)

\* C9: a search without candidates ends the request only once max_attempts
\* searches were issued.
C9_NoCandidatesEndsOnlyWhenExhausted ==
    (si_pc = "done" /\ LastDocuments = <<>>) =>
        Len(si_searched) >= si_max_attempts

-----------------------------------------------------------------------------
(* retrieval/query_analyzer.py: analyze_query                              *)

K_statistics   == <<"s","t","a","t","i","s","t","i","c","s">>
K_architecture == <<"a","r","c","h","i","t","e","c","t","u","r","e">>
K_visual       == <<"v","i","s","u","a","l">>

QA_TableKeywords == { K_table, K_results, K_statistics, K_compare }
QA_ImageKeywords == { K_figure, K_diagram, K_architecture, K_visual }

analyze_query(query) ==
    LET q == Lower(query)
        query_type ==
            IF \E k \in QA_TableKeywords : Contains(q, k) THEN "table"
            ELSE IF \E k \in QA_ImageKeywords : Contains(q, k)
                 THEN "image_caption"
                 ELSE "text"
    IN  [ query |-> query, query_type |-> query_type,
          filters |-> [ content_type |-> query_type ] ]

-----------------------------------------------------------------------------
(* retrieval/adaptive_retriever.py: adaptive_retrieve                      *)

\* the default of top_k
AR_TopK == 8

\* try: results = collection.query(query_texts, n_results, where=filters)
AR_Filtered ==
    /\ ar_pc = "filtered"
    /\ ar_calls' = Append(ar_calls,
          [ query_texts |-> <<ar_analysis.query>>, n_results |-> AR_TopK,
            where |-> <<ar_analysis.filters>> ])
    /\ \/ \E res \in Responses :
             /\ ar_outcomes' = Append(ar_outcomes,
                    [ raised |-> FALSE, documents |-> res.documents ])
             /\ ar_results' = res
             /\ ar_pc' = "done"
       \/ /\ ar_outcomes' = Append(ar_outcomes,
                    [ raised |-> TRUE, documents |-> <<>> ])
          /\ ar_pc' = "fallback"
          /\ UNCHANGED ar_results
    /\ UNCHANGED ar_analysis
    /\ UNCHANGED not_ar

\* except Exception: results = collection.query(query_texts, n_results);
\* an exception of this second call is not caught.
AR_Fallback ==
    /\ ar_pc = "fallback"
    /\ ar_calls' = Append(ar_calls,
          [ query_texts |-> <<ar_analysis.query>>, n_results |-> AR_TopK,
            where |-> <<>> ])
    /\ \/ \E res \in Responses :
             /\ ar_outcomes' = Append(ar_outcomes,
                    [ raised |-> FALSE, documents |-> res.documents ])
             /\ ar_results' = res
             /\ ar_pc' = "done"
       \/ /\ ar_outcomes' = Append(ar_outcomes,
                    [ raised |-> TRUE, documents |-> <<>> ])
          /\ ar_pc' = "raised"
          /\ UNCHANGED ar_results
    /\ UNCHANGED ar_analysis
    /\ UNCHANGED not_ar

AR_NoResults == [ documents |-> <<>>, metadatas |-> <<>> ]

AR_Init ==
    /\ ar_pc = "filtered"
    /\ ar_analysis \in { analyze_query(q) : q \in Queries }
    /\ ar_calls = <<>>
    /\ ar_outcomes = <<>>
    /\ ar_results = AR_NoResults

AR_Idle ==
    /\ ar_pc = "idle"
    /\ ar_analysis = analyze_query(<<>>)
    /\ ar_calls = <<>>
    /\ ar_outcomes = <<>>
    /\ ar_results = AR_NoResults

NextAdaptive == AR_Filtered \/ AR_Fallback

-----------------------------------------------------------------------------
(* Properties of adaptive_retrieve                                         *)

UnfilteredCalls == { i \in DOMAIN ar_calls : ar_calls[i].where = <<>> }

\* C12: once adaptive_retrieve has ended, the query was searched without
\* filters exactly once if the filtered search raised or returned no
\* result, and not at all if the filtered search returned a result.
C12_UnfilteredRetryOnFailureOrEmpty ==
    ar_pc \in {"done", "raised"} =>
        IF ar_outcomes[1].raised \/ ar_outcomes[1].documents = <<>>
        THEN /\ Cardinality(UnfilteredCalls) = 1
             /\ ar_calls[2].query_texts = ar_calls[1].query_texts
        ELSE UnfilteredCalls = {}

-----------------------------------------------------------------------------
(* retrieval/cross_encoder_reranker.py: cross_rerank                       *)
(* retrieval/reranker.py: rerank                                           *)

\* the default of top_k in cross_rerank
RR_DefaultTopK == 8

RR_DocPool == { Doc_cats, Doc_tables }

RR_DocLists == UNION { [1..n -> RR_DocPool] : n \in 0..MaxRerankDocs }

\* the scores of the external model, by their order only
RR_Scores == 0..MaxScore

RR_TopKs == (0..MaxTopK) \cup { RR_DefaultTopK }

\* sorted(zip(docs, scores), key=lambda x: x[1], reverse=True), as the list
\* of the positions in docs: list.sort is stable, also with reverse=True
Sorted(scores) ==
    LET place(i) == Cardinality({ j \in DOMAIN scores : scores[j] > scores[i] })
                  + Cardinality({ j \in 1..(i - 1) : scores[j] = scores[i] })
                  + 1
    IN  [ k \in DOMAIN scores |-> CHOOSE i \in DOMAIN scores : place(i) = k ]

\* ranked[:top_k] for top_k >= 0
Truncate(s, top_k) == SubSeq(s, 1, IF Len(s) < top_k THEN Len(s) ELSE top_k)

RR_Init ==
    /\ rr_pc = "start"
    /\ rr_strategy \in { "cross_rerank", "rerank" }
    /\ rr_docs \in RR_DocLists
    /\ rr_top_k \in RR_TopKs
    /\ rr_model_calls = <<>>
    /\ rr_scores = <<>>
    /\ rr_ranked = <<>>
    /\ rr_result = <<>>

RR_Idle ==
    /\ rr_pc = "idle"
    /\ rr_strategy = "cross_rerank"
    /\ rr_docs = <<>>
    /\ rr_top_k = 0
    /\ rr_model_calls = <<>>
    /\ rr_scores = <<>>
    /\ rr_ranked = <<>>
    /\ rr_result = <<>>

\* if not docs: return []
RR_Empty ==
    /\ rr_pc = "start"
    /\ rr_docs = <<>>
    /\ rr_result' = <<>>
    /\ rr_pc' = "done"
    /\ UNCHANGED <<rr_strategy, rr_docs, rr_top_k, rr_model_calls, rr_scores,
                   rr_ranked>>
    /\ UNCHANGED not_rr

\* A scoring step that is also taken for an empty candidate list.
RR_Score_Unguarded ==
    /\ rr_pc = "start"
    /\ rr_model_calls' = rr_model_calls \o
          IF rr_strategy = "cross_rerank"
          THEN << [ fn |-> "predict", inputs |-> Len(rr_docs) ] >>
          ELSE << [ fn |-> "encode", inputs |-> 1 ],
                  [ fn |-> "encode", inputs |-> Len(rr_docs) ] >>
    /\ \E scores \in [ DOMAIN rr_docs -> RR_Scores ] :
          /\ rr_scores' = scores
          /\ rr_pc' = "scored"
    /\ UNCHANGED <<rr_strategy, rr_docs, rr_top_k, rr_ranked, rr_result>>
    /\ UNCHANGED not_rr

\* cross_rerank: scores = model.predict(pairs), one pair per document;
\* rerank: model.encode(query), model.encode(docs), util.cos_sim.
\* An exception of the model is not caught.
RR_Score ==
    /\ rr_pc = "start"
    /\ rr_docs # <<>>
    /\ \/ /\ rr_model_calls' = rr_model_calls \o
                IF rr_strategy = "cross_rerank"
                THEN << [ fn |-> "predict", inputs |-> Len(rr_docs) ] >>
                ELSE << [ fn |-> "encode", inputs |-> 1 ],
                        [ fn |-> "encode", inputs |-> Len(rr_docs) ] >>
          /\ \/ \E scores \in [ DOMAIN rr_docs -> RR_Scores ] :
                   /\ rr_scores' = scores
                   /\ rr_pc' = "scored"
             \/ /\ rr_pc' = "raised"
                /\ UNCHANGED rr_scores
       \/ /\ rr_strategy = "rerank"
          /\ rr_model_calls' = Append(rr_model_calls,
                                      [ fn |-> "encode", inputs |-> 1 ])
          /\ rr_pc' = "raised"
          /\ UNCHANGED rr_scores
    /\ UNCHANGED <<rr_strategy, rr_docs, rr_top_k, rr_ranked, rr_result>>
    /\ UNCHANGED not_rr

\* ranked = sorted(...); cross_rerank returns the documents of
\* ranked[:top_k], rerank (which has no top_k) those of ranked.
RR_Sort ==
    /\ rr_pc = "scored"
    /\ rr_ranked' = Sorted(rr_scores)
    /\ rr_result' =
          LET ranked == Sorted(rr_scores)
              kept   == IF rr_strategy = "cross_rerank"
                        THEN Truncate(ranked, rr_top_k)
                        ELSE ranked
          IN  [ k \in DOMAIN kept |-> rr_docs[kept[k]] ]
    /\ rr_pc' = "done"
    /\ UNCHANGED <<rr_strategy, rr_docs, rr_top_k, rr_model_calls, rr_scores>>
    /\ UNCHANGED not_rr

NextRerank == RR_Empty \/ RR_Score \/ RR_Sort

-----------------------------------------------------------------------------
(* Properties of the re-rankers                                            *)

\* the positions of docs in descending score order, ties in original order
IsStableDescending(order) ==
    /\ Len(order) = Len(rr_docs)
    /\ Range(order) = DOMAIN rr_docs
    /\ \A a, b \in DOMAIN order :
          a < b => \/ rr_scores[order[a]] > rr_scores[order[b]]
                   \/ /\ rr_scores[order[a]] = rr_scores[order[b]]
                      /\ order[a] < order[b]

\* C13: a re-ranking returns the first min(topK, n) candidates of the
\* stable descending order by score, so at most topK of them and none that
\* was not in the input, under both strategies.
C13_OrderedStableTruncated ==
    rr_pc = "done" /\ rr_docs # <<>> =>
        /\ IsStableDescending(rr_ranked)
        /\ Len(rr_result) <= rr_top_k
        /\ Len(rr_result) = Len(Truncate(rr_ranked, rr_top_k))
        /\ \A k \in DOMAIN rr_result : rr_result[k] = rr_docs[rr_ranked[k]]

\* C14: for an empty candidate list the external model is never called and
\* the result is the empty list; the model is never called with zero inputs.
C14_EmptyNeverScored ==
    /\ rr_docs = <<>> => rr_model_calls = <<>> /\ rr_result = <<>>
                         /\ rr_pc \in {"start", "done", "idle"}
    /\ \A i \in DOMAIN rr_model_calls : rr_model_calls[i].inputs > 0

\* C14 witness: rerank has returned the empty list for an empty candidate
\* list, with no call of the model
C14_Witness ==
    /\ rr_pc = "done"
    /\ rr_docs = <<>>
    /\ rr_strategy = "rerank"
    /\ rr_result = <<>>
    /\ rr_model_calls = <<>>

-----------------------------------------------------------------------------
(* retrieval/multimodal_router.py: MultimodalQueryRouter                   *)

\* The keyword sets, each written as a list so that queries can be built
\* from its first words; the sets themselves are the ranges of the lists
\* ("row" is written twice in TABLE_KEYWORDS and counts once).

ImageKeywordList ==
    << <<"i","m","a","g","e">>,
       <<"f","i","g","u","r","e">>,
       <<"p","h","o","t","o">>,
       <<"p","i","c","t","u","r","e">>,
       <<"d","i","a","g","r","a","m">>,
       <<"i","l","l","u","s","t","r","a","t","i","o","n">>,
       <<"s","c","r","e","e","n","s","h","o","t">>,
       <<"v","i","s","u","a","l">>,
       <<"s","h","o","w">>,
       <<"s","e","e">>,
       <<"l","o","o","k">>,
       <<"d","i","s","p","l","a","y">>,
       <<"p","l","o","t">>,
       <<"g","r","a","p","h">>,
       <<"c","h","a","r","t">>,
       <<"v","i","s","u","a","l","i","z","a","t","i","o","n">>,
       <<"d","e","p","i","c","t","e","d">>,
       <<"s","h","o","w","n">> >>

TableKeywordList ==
    << <<"t","a","b","l","e">>,
       <<"d","a","t","a">>,
       <<"v","a","l","u","e","s">>,
       <<"n","u","m","b","e","r","s">>,
       <<"c","o","l","u","m","n">>,
       <<"r","o","w">>,
       <<"s","p","r","e","a","d","s","h","e","e","t">>,
       <<"m","a","t","r","i","x">>,
       <<"d","a","t","a","s","e","t">>,
       <<"s","t","a","t","i","s","t","i","c","s">>,
       <<"r","e","s","u","l","t","s">>,
       <<"c","o","m","p","a","r","i","s","o","n">>,
       <<"b","e","n","c","h","m","a","r","k">>,
       <<"m","e","t","r","i","c">>,
       <<"q","u","a","n","t","i","t","a","t","i","v","e">> >>

TextKeywordList ==
    << <<"e","x","p","l","a","i","n">>,
       <<"w","h","a","t">>,
       <<"h","o","w">>,
       <<"w","h","y">>,
       <<"d","e","f","i","n","i","t","i","o","n">>,
       <<"d","e","s","c","r","i","b","e">>,
       <<"d","i","s","c","u","s","s">>,
       <<"s","t","a","t","e">>,
       <<"m","e","n","t","i","o","n">>,
       <<"s","a","y">>,
       <<"w","r","i","t","e">>,
       <<"c","o","n","c","l","u","d","e">>,
       <<"a","b","s","t","r","a","c","t">>,
       <<"i","n","t","r","o","d","u","c","t","i","o","n">>,
       <<"s","e","c","t","i","o","n">>,
       <<"p","a","r","a","g","r","a","p","h">> >>

CombinedKeywordList ==
    << <<"s","u","m","m","a","r","i","z","e">>,
       <<"o","v","e","r","v","i","e","w">>,
       <<"c","o","m","p","r","e","h","e","n","s","i","v","e">>,
       <<"d","e","t","a","i","l","e","d">>,
       <<"a","l","l">>,
       <<"i","n","c","l","u","d","i","n","g">>,
       <<"t","o","g","e","t","h","e","r">>,
       <<"a","n","d">>,
       <<"b","o","t","h">>,
       <<"c","o","m","b","i","n","e">> >>

IMAGE_KEYWORDS    == Range(ImageKeywordList)
TABLE_KEYWORDS    == Range(TableKeywordList)
TEXT_KEYWORDS     == Range(TextKeywordList)
COMBINED_KEYWORDS == Range(CombinedKeywordList)

\* the keys of `scores`, in the insertion order of the dict
Modalities == << "image", "table", "text" >>

KeywordsOf(modality) ==
    IF modality = "image" THEN IMAGE_KEYWORDS
    ELSE IF modality = "table" THEN TABLE_KEYWORDS
    ELSE TEXT_KEYWORDS

\* _score_modality: matches / len(keywords), a float
score_modality(tokens, keywords) ==
    IF keywords = {} THEN FloatZero
    ELSE IntTrueDiv(Cardinality(tokens \cap keywords), Cardinality(keywords))

\* the literals 0.5 and 0.3
Half        == IntTrueDiv(1, 2)
ThreeTenths == IntTrueDiv(3, 10)

\* A sort that puts the later of two equal scores first.
SortedModalities_LastOnTies(scores) ==
    LET place(i) == Cardinality({ j \in 1..3 : FloatGreater(scores[j], scores[i]) })
                  + Cardinality({ j \in (i + 1)..3 : scores[j] = scores[i] })
                  + 1
    IN  [ k \in 1..3 |-> CHOOSE i \in 1..3 : place(i) = k ]

\* sorted(scores.items(), key=lambda x: x[1], reverse=True), as the list of
\* positions in Modalities (a stable sort)
SortedModalities(scores) ==
    LET place(i) == Cardinality({ j \in 1..3 : FloatGreater(scores[j], scores[i]) })
                  + Cardinality({ j \in 1..(i - 1) : scores[j] = scores[i] })
                  + 1
    IN  [ k \in 1..3 |-> CHOOSE i \in 1..3 : place(i) = k ]

get_recommendation(primary, combined) ==
    IF FloatGreater(combined, ThreeTenths) THEN "Retrieve mixed modalities"
    ELSE IF primary = "image"
         THEN "Search image collection for visual content"
    ELSE IF primary = "table" THEN "Search structured data and tables"
    ELSE IF primary = "text" THEN "Search text chunks with semantic search"
    ELSE "Retrieve best matching content"

\* An analysis that uses the loose threshold for the secondary modalities
\* in both branches.
router_analyze_query_LooseAlways(query) ==
    LET tokens == Tokens(query)
        scores == [ i \in 1..3 |-> score_modality(tokens, KeywordsOf(Modalities[i])) ]
        combined_score == score_modality(tokens, COMBINED_KEYWORDS)
        sorted_modalities == SortedModalities(scores)
        primary == Modalities[sorted_modalities[1]]
        primary_score == scores[sorted_modalities[1]]
        mixed == FloatGreater(combined_score, FloatZero)
                 \/ FloatGreater(Half, primary_score)
        rest == SubSeq(sorted_modalities, 2, 3)
        kept == SelectSeq(rest, LAMBDA i : FloatGreater(scores[i], FloatZero))
    IN  [ primary_modality |-> primary,
          secondary_modalities |-> [ k \in DOMAIN kept |-> Modalities[kept[k]] ],
          overall_modality |-> IF mixed THEN "mixed" ELSE primary,
          confidence |-> IF FloatGreater(combined_score, primary_score)
                         THEN combined_score ELSE primary_score,
          modality_scores |-> scores,
          combined_intent_score |-> combined_score,
          keywords_found |->
              [ image |-> tokens \cap IMAGE_KEYWORDS,
                table |-> tokens \cap TABLE_KEYWORDS,
                text |-> tokens \cap TEXT_KEYWORDS,
                combined |-> tokens \cap COMBINED_KEYWORDS ],
          recommendation |-> get_recommendation(primary, combined_score) ]

\* MultimodalQueryRouter.analyze_query
router_analyze_query(query) ==
    LET tokens == Tokens(query)
        scores == [ i \in 1..3 |-> score_modality(tokens, KeywordsOf(Modalities[i])) ]
        combined_score == score_modality(tokens, COMBINED_KEYWORDS)
        sorted_modalities == SortedModalities(scores)
        primary == Modalities[sorted_modalities[1]]
        primary_score == scores[sorted_modalities[1]]
        mixed == FloatGreater(combined_score, FloatZero)
                 \/ FloatGreater(Half, primary_score)
        rest == SubSeq(sorted_modalities, 2, 3)
        kept == IF mixed
                THEN SelectSeq(rest, LAMBDA i : FloatGreater(scores[i], FloatZero))
                ELSE SelectSeq(rest, LAMBDA i : FloatGreater(scores[i], ThreeTenths))
    IN  [ primary_modality |-> primary,
          secondary_modalities |-> [ k \in DOMAIN kept |-> Modalities[kept[k]] ],
          overall_modality |-> IF mixed THEN "mixed" ELSE primary,
          confidence |-> IF FloatGreater(combined_score, primary_score)
                         THEN combined_score ELSE primary_score,
          modality_scores |-> scores,
          combined_intent_score |-> combined_score,
          keywords_found |->
              [ image |-> tokens \cap IMAGE_KEYWORDS,
                table |-> tokens \cap TABLE_KEYWORDS,
                text |-> tokens \cap TEXT_KEYWORDS,
                combined |-> tokens \cap COMBINED_KEYWORDS ],
          recommendation |-> get_recommendation(primary, combined_score) ]

\* Queries: the first words of each keyword list, then one more word that
\* is no keyword as it stands (a keyword with punctuation, or a capitalised
\* keyword, which lower() turns into one)
W_tableQ == <<"t","a","b","l","e","?">>

RouterFillers == { <<>>, <<W_tableQ>>, <<W_Show>> }

RouterQueries ==
    { Join(SubSeq(ImageKeywordList, 1, i) \o SubSeq(TableKeywordList, 1, t)
           \o SubSeq(TextKeywordList, 1, x) \o SubSeq(CombinedKeywordList, 1, c)
           \o f) :
        i \in 0..MaxImageWords, t \in 0..MaxTableWords, x \in 0..MaxTextWords,
        c \in 0..MaxCombinedWords, f \in RouterFillers }

RT_NoAnalysis == router_analyze_query(<<>>)

RT_Init ==
    /\ rt_pc = "start"
    /\ rt_query \in RouterQueries
    /\ rt_analysis = RT_NoAnalysis

RT_Idle ==
    /\ rt_pc = "idle"
    /\ rt_query = <<>>
    /\ rt_analysis = RT_NoAnalysis

RT_Analyze ==
    /\ rt_pc = "start"
    /\ rt_analysis' = router_analyze_query(rt_query)
    /\ rt_pc' = "done"
    /\ UNCHANGED rt_query
    /\ UNCHANGED not_rt

NextRouter == RT_Analyze

-----------------------------------------------------------------------------
(* Properties of MultimodalQueryRouter.analyze_query                       *)

\* number of keywords of a vocabulary among the tokens of the query
Matches(keywords) == Cardinality(Tokens(rt_query) \cap keywords)

NoModalityKeyword ==
    \A i \in 1..3 : Matches(KeywordsOf(Modalities[i])) = 0

\* C15 as stated: a query without any image, table or text keyword gets
\* confidence 0 and primary modality image.
C15_NoKeywordZeroConfidence ==
    rt_pc = "done" /\ NoModalityKeyword =>
        /\ rt_analysis.confidence = FloatZero
        /\ rt_analysis.primary_modality = "image"

\* C15 amended: a query without any image, table or text keyword gets
\* primary modality image and no secondary modality; its confidence is 0
\* exactly when it has no combined-intent keyword either, and is otherwise
\* the combined-intent score.
C15_NoKeywordImagePrimary ==
    rt_pc = "done" /\ NoModalityKeyword =>
        /\ rt_analysis.primary_modality = "image"
        /\ rt_analysis.secondary_modalities = <<>>
        /\ rt_analysis.confidence = FloatZero <=> Matches(COMBINED_KEYWORDS) = 0
        /\ rt_analysis.confidence =
              IntTrueDiv(Matches(COMBINED_KEYWORDS), Cardinality(COMBINED_KEYWORDS))

\* C15 witness: the empty query was classified
C15_Witness ==
    /\ rt_pc = "done"
    /\ rt_query = <<>>
    /\ rt_analysis.primary_modality = "image"
    /\ rt_analysis.confidence = FloatZero

PositionOf(modality) == CHOOSE i \in 1..3 : Modalities[i] = modality

\* score(a) > score(b) and score(a) = score(b), in exact arithmetic
ScoreAbove(a, b) ==
    Matches(KeywordsOf(a)) * Cardinality(KeywordsOf(b))
        > Matches(KeywordsOf(b)) * Cardinality(KeywordsOf(a))
ScoreEqual(a, b) ==
    Matches(KeywordsOf(a)) * Cardinality(KeywordsOf(b))
        = Matches(KeywordsOf(b)) * Cardinality(KeywordsOf(a))

\* C16: the primary modality has the highest score |tokens n K| / |K|
\* (the first in canonical order among equals); the query is mixed iff the
\* combined score is > 0 or the primary score is < 0.5; the secondary
\* modalities are the others with score > 0 if mixed and > 0.3 otherwise, in
\* descending score order, never the primary; the confidence is the larger
\* of primary and combined score and lies in [0, 1].
C16_RankingAndThresholds ==
    rt_pc = "done" =>
        LET p   == rt_analysis.primary_modality
            sec == rt_analysis.secondary_modalities
            np  == Matches(KeywordsOf(p))
            sp  == Cardinality(KeywordsOf(p))
            nc  == Matches(COMBINED_KEYWORDS)
            sc  == Cardinality(COMBINED_KEYWORDS)
            mixed == nc > 0 \/ 2 * np < sp
            others == { Modalities[i] : i \in 1..3 } \ { p }
        IN  /\ \A q \in others :
                  \/ ScoreAbove(p, q)
                  \/ ScoreEqual(p, q) /\ PositionOf(p) < PositionOf(q)
            /\ rt_analysis.overall_modality = IF mixed THEN "mixed" ELSE p
            /\ Range(sec) =
                  { q \in others :
                      IF mixed THEN Matches(KeywordsOf(q)) > 0
                      ELSE 10 * Matches(KeywordsOf(q)) > 3 * Cardinality(KeywordsOf(q)) }
            /\ Len(sec) = Cardinality(Range(sec))
            /\ \A a, b \in DOMAIN sec :
                  a < b => \/ ScoreAbove(sec[a], sec[b])
                           \/ ScoreEqual(sec[a], sec[b])
                              /\ PositionOf(sec[a]) < PositionOf(sec[b])
            /\ p \notin Range(sec)
            /\ rt_analysis.confidence =
                  IF np * sc >= nc * sp THEN IntTrueDiv(np, sp)
                  ELSE IntTrueDiv(nc, sc)
            /\ FloatGeq(rt_analysis.confidence, FloatZero)
            /\ FloatGeq(IntToFloat(1), rt_analysis.confidence)

\* C16 witness: a query that is not mixed (primary score >= 0.5, no
\* combined keyword) with a secondary modality above the tight threshold and
\* another modality that matched below it
C16_Witness ==
    /\ rt_pc = "done"
    /\ rt_analysis.overall_modality = "table"
    /\ rt_analysis.secondary_modalities = << "image" >>
    /\ Matches(TEXT_KEYWORDS) > 0

-----------------------------------------------------------------------------
(* retrieval/tools.py and retrieval/advanced_pipeline.py: one tool call,   *)
(* which is one run of run_advanced_retrieval                              *)

\* list(set(expansions)): the distinct strings in the order of the set's
\* iteration, which str hashing leaves open
expand_query(query) ==
    LET S == Range(Expansions(query))
    IN  { e \in [ 1..Cardinality(S) -> S ] : Range(e) = S }

\* the default of top_k in hybrid_retrieve
HR_DefaultTopK == 8

\* what the collection answers to one variant
AP_Responses ==
    { Response(<<>>), Response(<< <<Doc_cats, Meta_p1>> >>),
      Response(<< <<Doc_tables, Meta_p1>>, <<Doc_cats, Meta_p2>> >>) }

AP_Init ==
    /\ ap_pc = "start"
    /\ ap_tool \in Strategies
    /\ ap_user_query = W_cats
    /\ ap_query = <<>>
    /\ ap_expand_calls = <<>>
    /\ ap_expanded = <<>>
    /\ ap_searched = <<>>
    /\ ap_merged = <<>>
    /\ ap_docs = <<>>
    /\ ap_metas = <<>>
    /\ ap_model_calls = <<>>
    /\ ap_ranked_docs = <<>>
    /\ ap_returned = NoneResult

AP_Idle ==
    /\ ap_pc = "idle"
    /\ ap_tool = "hybrid"
    /\ ap_user_query = <<>>
    /\ ap_query = <<>>
    /\ ap_expand_calls = <<>>
    /\ ap_expanded = <<>>
    /\ ap_searched = <<>>
    /\ ap_merged = <<>>
    /\ ap_docs = <<>>
    /\ ap_metas = <<>>
    /\ ap_model_calls = <<>>
    /\ ap_ranked_docs = <<>>
    /\ ap_returned = NoneResult

\* A pipeline that expands every variant once more.
AP_Expand_Compounding ==
    /\ ap_pc = "start"
    /\ ap_query' = ToolQuery(ap_tool, ap_user_query)
    /\ \E first \in expand_query(ap_query') :
       \E again \in expand_query(first[1]) :
          /\ ap_expand_calls' = ap_expand_calls \o << ap_query', first[1] >>
          /\ ap_expanded' = first \o again
    /\ ap_pc' = "search"
    /\ UNCHANGED <<ap_tool, ap_user_query, ap_searched, ap_merged, ap_docs,
                   ap_metas, ap_model_calls, ap_ranked_docs, ap_returned>>
    /\ UNCHANGED not_ap

\* The tool builds q (table_tool and figure_tool append a word) and calls
\* run_advanced_retrieval(collection, q), which analyses and expands q.
AP_Expand ==
    /\ ap_pc = "start"
    /\ ap_query' = ToolQuery(ap_tool, ap_user_query)
    /\ ap_expand_calls' = Append(ap_expand_calls, ap_query')
    /\ ap_expanded' \in expand_query(ap_query')
    /\ ap_pc' = "search"
    /\ UNCHANGED <<ap_tool, ap_user_query, ap_searched, ap_merged, ap_docs,
                   ap_metas, ap_model_calls, ap_ranked_docs, ap_returned>>
    /\ UNCHANGED not_ap

\* hybrid_retrieve: one pass of `for q in expanded_queries`
AP_Search ==
    /\ ap_pc = "search"
    /\ Len(ap_searched) < Len(ap_expanded)
    /\ ap_searched' = Append(ap_searched,
          [ query_texts |-> << ap_expanded[Len(ap_searched) + 1] >>,
            n_results |-> HR_DefaultTopK ])
    /\ \/ \E res \in AP_Responses :
             /\ ap_merged' = ap_merged \o Zip(res.documents, res.metadatas)
             /\ ap_pc' = "search"
       \/ /\ ap_pc' = "raised"
          /\ UNCHANGED ap_merged
    /\ UNCHANGED <<ap_tool, ap_user_query, ap_query, ap_expand_calls,
                   ap_expanded, ap_docs, ap_metas, ap_model_calls,
                   ap_ranked_docs, ap_returned>>
    /\ UNCHANGED not_ap

\* hybrid_retrieve: the deduplication and the return of (docs, metas)
AP_Merge ==
    /\ ap_pc = "search"
    /\ Len(ap_searched) = Len(ap_expanded)
    /\ LET unique == Deduplicate(ap_merged, <<>>, <<>>)
       IN  /\ ap_docs' = unique.docs
           /\ ap_metas' = unique.metas
    /\ ap_pc' = "rerank"
    /\ UNCHANGED <<ap_tool, ap_user_query, ap_query, ap_expand_calls,
                   ap_expanded, ap_searched, ap_merged, ap_model_calls,
                   ap_ranked_docs, ap_returned>>
    /\ UNCHANGED not_ap

\* cross_rerank(query, docs), the printing of the first five results and
\* the return: run_advanced_retrieval returns None, which the tool wraps.
AP_Rerank ==
    /\ ap_pc = "rerank"
    /\ \/ /\ ap_docs = <<>>
          /\ ap_ranked_docs' = <<>>
          /\ ap_returned' = ToolResult(ap_tool)
          /\ ap_pc' = "done"
          /\ UNCHANGED ap_model_calls
       \/ /\ ap_docs # <<>>
          /\ ap_model_calls' = Append(ap_model_calls,
                [ fn |-> "predict", inputs |-> Len(ap_docs) ])
          /\ \/ \E scores \in [ DOMAIN ap_docs -> RR_Scores ] :
                   /\ ap_ranked_docs' =
                         LET kept == Truncate(Sorted(scores), RR_DefaultTopK)
                         IN  [ k \in DOMAIN kept |-> ap_docs[kept[k]] ]
                   /\ ap_returned' = ToolResult(ap_tool)
                   /\ ap_pc' = "done"
             \/ /\ ap_pc' = "raised"
                /\ UNCHANGED <<ap_ranked_docs, ap_returned>>
    /\ UNCHANGED <<ap_tool, ap_user_query, ap_query, ap_expand_calls,
                   ap_expanded, ap_searched, ap_merged, ap_docs, ap_metas>>
    /\ UNCHANGED not_ap

NextAdvanced == AP_Expand \/ AP_Search \/ AP_Merge \/ AP_Rerank

-----------------------------------------------------------------------------
(* Properties of expand_query and its use                                  *)

FourVariants(q) == { q, q \o S_explanation, q \o S_details, q \o S_summary }

ExpansionIsFourDistinct ==
    /\ Len(ap_expanded) = 4
    /\ Cardinality(Range(ap_expanded)) = 4
    /\ Range(ap_expanded) = FourVariants(ap_query)

\* expanding a variant other than the expanded text leaves the first result
NotIdempotent ==
    \A v \in Range(ap_expanded) \ { ap_query } :
        \A e \in expand_query(v) : Range(e) \cap Range(ap_expanded) = { v }

\* C17 as stated: the result of the expansion is four distinct strings, the
\* query and its three suffixed variants; expanding a variant again leaves
\* that result; the pipeline expands once, and what it expands is the
\* original query.
C17_ExpandsOriginalOnce ==
    ap_pc \notin {"start", "idle"} =>
        /\ ExpansionIsFourDistinct
        /\ NotIdempotent
        /\ ap_expand_calls = << ap_user_query >>

\* C17 amended: as above, but what a tool call expands (once) is the text
\* the tool hands to run_advanced_retrieval: the original query for the
\* semantic and hybrid tools, the original query followed by " table" or
\* " figure" for the table and figure tools; it is never a variant.
C17_ExpandsToolQueryOnce ==
    ap_pc \notin {"start", "idle"} =>
        /\ ExpansionIsFourDistinct
        /\ NotIdempotent
        /\ ap_expand_calls = << ap_query >>
        /\ ap_query = IF ap_tool = "table" THEN ap_user_query \o S_table
                      ELSE IF ap_tool = "figure" THEN ap_user_query \o S_figure
                      ELSE ap_user_query
        /\ \A i \in DOMAIN ap_searched :
              ap_searched[i].query_texts = << ap_expanded[i] >>

\* C17 witness: the table tool has finished; every one of the four
\* variants of "cats table" was searched
C17_Witness ==
    /\ ap_pc = "done"
    /\ ap_tool = "table"
    /\ ap_expand_calls = << W_cats \o S_table >>
    /\ { ap_searched[i].query_texts[1] : i \in DOMAIN ap_searched }
          = FourVariants(W_cats \o S_table)

-----------------------------------------------------------------------------
(* One call of rewrite_query (retrieval/query_rewriter.py)                 *)

RW_Init ==
    /\ rw_pc = "start"
    /\ rw_query \in Queries
    /\ rw_attempt \in 1..MaxRewriteAttempt
    /\ rw_result = <<>>

RW_Idle ==
    /\ rw_pc = "idle"
    /\ rw_query = <<>>
    /\ rw_attempt = 1
    /\ rw_result = <<>>

RW_Rewrite ==
    /\ rw_pc = "start"
    /\ rw_result' = rewrite_query(rw_query, rw_attempt)
    /\ rw_pc' = "done"
    /\ UNCHANGED <<rw_query, rw_attempt>>
    /\ UNCHANGED not_rw

NextRewrite == RW_Rewrite

\* the words the specification names for an attempt
W_detailed    == <<"d","e","t","a","i","l","e","d">>
W_explanation == <<"e","x","p","l","a","n","a","t","i","o","n">>
W_research    == <<"r","e","s","e","a","r","c","h">>
W_paper       == <<"p","a","p","e","r">>
W_figures     == <<"f","i","g","u","r","e","s">>
W_tables      == <<"t","a","b","l","e","s">>

AppendedWords(attempt) ==
    IF attempt = 1 THEN << W_detailed, W_explanation >>
    ELSE IF attempt = 2 THEN << W_research, W_paper >>
    ELSE << W_methodology, W_results, W_figures, W_tables >>

\* C18: the rewrite for attempt 1, 2 and >= 3 is the query followed by the
\* words "detailed explanation", "research paper" and "methodology results
\* figures tables" respectively (after one blank), and the original query is
\* a prefix of the result.
C18_RewriteAppendsFixedWords ==
    rw_pc = "done" =>
        /\ Len(rw_result) > Len(rw_query)
        /\ SubSeq(rw_result, 1, Len(rw_query)) = rw_query
        /\ SubSeq(rw_result, Len(rw_query) + 1, Len(rw_result))
              = <<" ">> \o Join(AppendedWords(rw_attempt))
        /\ Split(rw_result) = Split(rw_query) \o AppendedWords(rw_attempt)

\* C18 witness: a rewrite for an attempt beyond the third
C18_Witness ==
    /\ rw_pc = "done"
    /\ rw_attempt > 3
    /\ rw_query = ShowTheResultsTable
    /\ Split(rw_result) =
          << W_Show, W_the, W_results, W_table,
             W_methodology, W_results, W_figures, W_tables >>

-----------------------------------------------------------------------------
(* Properties of the generation context and of the vision step             *)

BlockRank(block) ==
    IF block = "text" THEN 1 ELSE IF block = "image" THEN 2 ELSE 3

\* text content first, then image content, then table content
BlocksInOrder(context) ==
    \A i, j \in DOMAIN context :
        i < j => BlockRank(context[i].block) <= BlockRank(context[j].block)

\* every piece of content comes after a header of its block
BlocksHaveHeaders(context) ==
    \A i \in DOMAIN context :
        context[i].kind = "content" =>
            \E j \in 1..(i - 1) :
                context[j].kind = "header" /\ context[j].block = context[i].block

\* C19: every context handed to the generator has its text content first,
\* then its image content, then its table content, each block after its
\* header.
C19_ContextBlocksWithHeaders ==
    \A g \in DOMAIN si_generated :
        /\ BlocksInOrder(si_generated[g].context)
        /\ BlocksHaveHeaders(si_generated[g].context)

\* C20: an image whose vision analysis failed (raised or reported no
\* success) is still among the returned candidates and is named in the
\* generation context by its filename.
C20_FailedImageKeptInContext ==
    si_pc = "done" /\ si_generated # <<>> =>
        \A k \in DOMAIN si_vision_calls :
            si_vision_calls[k].outcome \in {"raise", "not_success"} =>
                /\ \E i \in DOMAIN si_returned.source_chunks :
                      /\ si_returned.source_chunks[i].kind = "image"
                      /\ si_returned.source_chunks[i].path = si_vision_calls[k].path
                /\ \E i \in DOMAIN si_returned.source_chunks :
                      /\ si_returned.source_chunks[i].path = si_vision_calls[k].path
                      /\ \E j \in DOMAIN si_generated[1].context :
                            /\ si_generated[1].context[j].kind = "header"
                            /\ si_generated[1].context[j].value =
                                  si_returned.source_chunks[i].filename

-----------------------------------------------------------------------------
(* MultimodalRetrievalPipeline.retrieve (retrieval/multimodal_pipeline.py)   *)

\* __init__ defaults
MM_DefaultImageTopK == 3
\* _retrieve_tables keeps similarities[:3]
MM_TopTables        == 3

\* the largest number of images and tables registered by add_document_data
MaxStoredImages == 3
MaxStoredTables == 1

\* MultimodalQueryRouter.should_retrieve_modality
should_retrieve_modality(modality, analysis) ==
    IF modality = analysis.overall_modality THEN TRUE
    ELSE IF modality \in Range(analysis.secondary_modalities) THEN TRUE
    ELSE IF modality = "text" THEN TRUE
    ELSE FALSE

\* all_embeddings['images'] and ['tables']: the embedding is absent (<<>>) or
\* has the similarity to the query that the dot product gives
MM_Image(path, page, embedding) ==
    [ path |-> path, filename |-> path, page |-> page, embedding |-> embedding ]

MM_ImagePool ==
    << MM_Image("fig1.png", 1, <<1>>), MM_Image("fig2.png", 2, <<2>>),
       MM_Image("fig3.png", 3, <<2>>), MM_Image("fig4.png", 4, <<>>),
       MM_Image("fig5.png", 5, <<1>>) >>

MM_TablePool ==
    << [ page |-> 1, content |-> Doc_tables, embedding |-> <<1>> ],
       [ page |-> 2, content |-> Doc_cats, embedding |-> <<>> ] >>

\* queries with no, one or nine image keywords, no, two or many table
\* keywords, and with or without a word of combined intent
MM_Queries ==
    { Join(SubSeq(ImageKeywordList, 1, i) \o SubSeq(TableKeywordList, 1, t)
           \o SubSeq(CombinedKeywordList, 1, c)) :
        i \in { 0, 1, 9 }, t \in { 0, 2, MaxTableWords },
        c \in 0..MaxCombinedWords }

\* what the collection answers to _retrieve_text's query
MM_TextAnswers == { <<>>, <<Doc_cats>>, <<Doc_cats, Doc_tables>> }

\* statuses of an analyze_image answer
MM_VisionStatuses == { "success", "error" }

NoCaption == [ of |-> "", text |-> "No caption" ]

\* analysis.get('caption', 'No caption')
MM_Caption(path, status) ==
    IF status = "success" THEN [ of |-> path, text |-> "caption" ]
    ELSE NoCaption

\* the entries that carry an embedding, in stored order
Embedded(items) == SelectSeq(items, LAMBDA x : x.embedding # <<>>)

\* similarities.sort(key=lambda x: x[1], reverse=True)
BySimilarity(items) ==
    LET e == Embedded(items)
        order == Sorted([ k \in DOMAIN e |-> e[k].embedding[1] ])
    IN  [ k \in DOMAIN e |-> e[order[k]] ]

MM_Init ==
    /\ mm_pc = "start"
    /\ mm_query \in MM_Queries
    /\ mm_image_top_k = MM_DefaultImageTopK
    /\ mm_images \in { SubSeq(MM_ImagePool, 1, n) : n \in 0..MaxStoredImages }
    /\ mm_tables \in { SubSeq(MM_TablePool, 1, n) : n \in 0..MaxStoredTables }
    /\ mm_analysis = RT_NoAnalysis
    /\ mm_text_results = <<>>
    /\ mm_image_results = <<>>
    /\ mm_table_results = <<>>
    /\ mm_vision_calls = <<>>
    /\ mm_retrievals = <<>>

MM_Idle ==
    /\ mm_pc = "idle"
    /\ mm_query = <<>>
    /\ mm_image_top_k = MM_DefaultImageTopK
    /\ mm_images = <<>>
    /\ mm_tables = <<>>
    /\ mm_analysis = RT_NoAnalysis
    /\ mm_text_results = <<>>
    /\ mm_image_results = <<>>
    /\ mm_table_results = <<>>
    /\ mm_vision_calls = <<>>
    /\ mm_retrievals = <<>>

\* Step 1: analysis = self.router.analyze_query(query)
MM_Analyze ==
    /\ mm_pc = "start"
    /\ mm_analysis' = router_analyze_query(mm_query)
    /\ mm_pc' = "text"
    /\ UNCHANGED <<mm_query, mm_image_top_k, mm_images, mm_tables,
                   mm_text_results, mm_image_results, mm_table_results,
                   mm_vision_calls, mm_retrievals>>
    /\ UNCHANGED not_mm

\* if should_retrieve_modality(TEXT, ...): _retrieve_text(query, top_k);
\* a failure of the collection's query leaves no text results
MM_RetrieveText ==
    /\ mm_pc = "text"
    /\ \/ /\ should_retrieve_modality("text", mm_analysis)
          /\ \/ \E docs \in MM_TextAnswers :
                   mm_text_results' =
                       [ i \in DOMAIN docs |->
                           [ type |-> "text", content |-> docs[i] ] ]
             \/ mm_text_results' = <<>>
          /\ mm_retrievals' = Append(mm_retrievals, "text")
       \/ /\ ~should_retrieve_modality("text", mm_analysis)
          /\ UNCHANGED <<mm_text_results, mm_retrievals>>
    /\ mm_pc' = "images"
    /\ UNCHANGED <<mm_query, mm_image_top_k, mm_images, mm_tables,
                   mm_analysis, mm_image_results, mm_table_results,
                   mm_vision_calls>>
    /\ UNCHANGED not_mm

\* _retrieve_images(query, top_k): every one of the top_k most similar
\* images is analysed, and the analysis is kept whatever its status
MM_RetrieveImages ==
    /\ mm_pc = "images"
    /\ \/ /\ \/ should_retrieve_modality("image", mm_analysis)
             \/ should_retrieve_modality("figure", mm_analysis)
             \/ should_retrieve_modality("chart", mm_analysis)
          /\ mm_retrievals' = Append(mm_retrievals, "image")
          /\ \/ /\ mm_images = <<>>
                /\ UNCHANGED <<mm_image_results, mm_vision_calls>>
             \/ \* the query embedding cannot be computed
                /\ mm_images # <<>>
                /\ UNCHANGED <<mm_image_results, mm_vision_calls>>
             \/ /\ mm_images # <<>>
                /\ LET top_images == Truncate(BySimilarity(mm_images),
                                              mm_image_top_k)
                   IN  \E statuses \in [ DOMAIN top_images -> MM_VisionStatuses ] :
                          /\ mm_vision_calls' = mm_vision_calls \o
                                 [ k \in DOMAIN top_images |-> top_images[k].path ]
                          /\ mm_image_results' =
                                 [ k \in DOMAIN top_images |->
                                     [ type |-> "image",
                                       filename |-> top_images[k].filename,
                                       path |-> top_images[k].path,
                                       page |-> top_images[k].page,
                                       similarity_score |->
                                           top_images[k].embedding[1],
                                       caption |->
                                           MM_Caption(top_images[k].path,
                                                      statuses[k]) ] ]
       \/ /\ ~should_retrieve_modality("image", mm_analysis)
          /\ ~should_retrieve_modality("figure", mm_analysis)
          /\ ~should_retrieve_modality("chart", mm_analysis)
          /\ UNCHANGED <<mm_image_results, mm_vision_calls, mm_retrievals>>
    /\ mm_pc' = "tables"
    /\ UNCHANGED <<mm_query, mm_image_top_k, mm_images, mm_tables,
                   mm_analysis, mm_text_results, mm_table_results>>
    /\ UNCHANGED not_mm

\* if should_retrieve_modality(TABLE, ...): _retrieve_tables(query)
MM_RetrieveTables ==
    /\ mm_pc = "tables"
    /\ \/ /\ should_retrieve_modality("table", mm_analysis)
          /\ mm_retrievals' = Append(mm_retrievals, "table")
          /\ \/ /\ mm_tables = <<>>
                /\ UNCHANGED mm_table_results
             \/ /\ mm_tables # <<>>
                /\ UNCHANGED mm_table_results
             \/ /\ mm_tables # <<>>
                /\ LET top == Truncate(BySimilarity(mm_tables), MM_TopTables)
                   IN  mm_table_results' =
                           [ k \in DOMAIN top |->
                               [ type |-> "table", page |-> top[k].page,
                                 content |-> top[k].content,
                                 similarity_score |-> top[k].embedding[1] ] ]
       \/ /\ ~should_retrieve_modality("table", mm_analysis)
          /\ UNCHANGED <<mm_table_results, mm_retrievals>>
    /\ mm_pc' = "done"
    /\ UNCHANGED <<mm_query, mm_image_top_k, mm_images, mm_tables,
                   mm_analysis, mm_text_results, mm_image_results,
                   mm_vision_calls>>
    /\ UNCHANGED not_mm

NextMultimodal ==
    \/ MM_Analyze
    \/ MM_RetrieveText
    \/ MM_RetrieveImages
    \/ MM_RetrieveTables

-----------------------------------------------------------------------------
(* Properties of the vision analysis                                         *)

\* C21: while one question is answered, analyze_image is invoked for at
\* most 2 image candidates, only for candidates of the image store, and
\* every successful analysis is attached to the image it was computed for.
C21_VisionCallsBounded ==
    /\ Len(mm_vision_calls) <= 2
    /\ Range(mm_vision_calls) \subseteq { mm_images[i].path : i \in DOMAIN mm_images }
    /\ \A k \in DOMAIN mm_image_results :
          mm_image_results[k].caption # NoCaption
              => mm_image_results[k].caption.of = mm_image_results[k].path

-----------------------------------------------------------------------------
(* Blank queries                                                             *)

\* not query.strip(), the test of the HTTP endpoints
IsBlank(query) == \A i \in DOMAIN query : query[i] = " "

\* C22: a blank or whitespace-only query is rejected before any retrieval
\* work: no planner step is recorded and no tool is dispatched for it.
C22_BlankQueryDoesNoWork ==
    IsBlank(ag_query) => ag_dispatched = <<>> /\ ag_memory = <<>>

-----------------------------------------------------------------------------
(* Failure of the answer generation                                          *)

\* C23: a failure of the final answer-generation call ends the request in
\* an error outcome: no request returns a normal response whose answer text
\* is the generator's failure message.
C23_GeneratorFailureIsTerminal ==
    si_pc = "done" => si_returned.response # "generator error message"

-----------------------------------------------------------------------------
(* Two runs of run_agentic_retrieval in flight at once.  A run is suspended *)
(* while a tool call is outstanding; between two suspensions it runs alone. *)
(* RetrievalMemory objects live in a heap, and each run's local variable    *)
(* memory holds a reference into it.                                        *)

Runs == { 1, 2 }

\* the queries of the concurrent runs, one per kind of plan
CC_Queries == { W_cats, W_explain, ShowTheResultsTable }

\* no RetrievalMemory object
NoObject == 0

CC_Init ==
    /\ cc_pc = [ r \in Runs |-> "start" ]
    /\ cc_query \in [ Runs -> CC_Queries ]
    /\ cc_max_steps \in [ Runs -> 0..MaxStepsBound ]
    /\ cc_step = [ r \in Runs |-> 0 ]
    /\ cc_memory = [ r \in Runs |-> NoObject ]
    /\ cc_heap = <<>>
    /\ cc_strategy = [ r \in Runs |-> "None" ]
    /\ cc_final_results = [ r \in Runs |-> NoneResult ]
    /\ cc_trace = [ r \in Runs |-> <<>> ]
    /\ cc_returned = [ r \in Runs |-> NoneResult ]

CC_Idle ==
    /\ cc_pc = [ r \in Runs |-> "idle" ]
    /\ cc_query = [ r \in Runs |-> <<>> ]
    /\ cc_max_steps = [ r \in Runs |-> 0 ]
    /\ cc_step = [ r \in Runs |-> 0 ]
    /\ cc_memory = [ r \in Runs |-> NoObject ]
    /\ cc_heap = <<>>
    /\ cc_strategy = [ r \in Runs |-> "None" ]
    /\ cc_final_results = [ r \in Runs |-> NoneResult ]
    /\ cc_trace = [ r \in Runs |-> <<>> ]
    /\ cc_returned = [ r \in Runs |-> NoneResult ]

\* One RetrievalMemory object of the module, used by every run.
CC_Start_SharedMemory(r) ==
    /\ cc_pc[r] = "start"
    /\ cc_heap' = IF cc_heap = <<>> THEN << <<>> >> ELSE cc_heap
    /\ cc_memory' = [ cc_memory EXCEPT ![r] = 1 ]
    /\ cc_pc' = [ cc_pc EXCEPT ![r] = "loop" ]
    /\ UNCHANGED <<cc_query, cc_max_steps, cc_step, cc_strategy,
                   cc_final_results, cc_trace, cc_returned>>
    /\ UNCHANGED not_cc

\* memory = RetrievalMemory(); final_results = None
CC_Start(r) ==
    /\ cc_pc[r] = "start"
    /\ cc_heap' = Append(cc_heap, <<>>)
    /\ cc_memory' = [ cc_memory EXCEPT ![r] = Len(cc_heap) + 1 ]
    /\ cc_pc' = [ cc_pc EXCEPT ![r] = "loop" ]
    /\ UNCHANGED <<cc_query, cc_max_steps, cc_step, cc_strategy,
                   cc_final_results, cc_trace, cc_returned>>
    /\ UNCHANGED not_cc

\* the planner, then the call of the planned tool, where the run waits
CC_Plan(r) ==
    /\ cc_pc[r] = "loop"
    /\ cc_step[r] < cc_max_steps[r]
    /\ cc_strategy' = [ cc_strategy EXCEPT ![r] = plan(cc_query[r]).strategy ]
    /\ cc_pc' = [ cc_pc EXCEPT ![r] = "tool" ]
    /\ UNCHANGED <<cc_query, cc_max_steps, cc_step, cc_memory, cc_heap,
                   cc_final_results, cc_trace, cc_returned>>
    /\ UNCHANGED not_cc

\* the planned tool answers (or raises): the result is stored, the step is
\* recorded, and either the hybrid tool is called (reflection) or the next
\* round begins
CC_ToolReturns(r) ==
    /\ cc_pc[r] = "tool"
    /\ \/ /\ cc_final_results' =
                [ cc_final_results EXCEPT ![r] = ToolResult(cc_strategy[r]) ]
          /\ cc_heap' = [ cc_heap EXCEPT ![cc_memory[r]] =
                            MemoryAdd(@, [ step |-> cc_step[r] + 1,
                                           strategy |-> cc_strategy[r] ]) ]
          /\ IF cc_strategy[r] # "hybrid"
             THEN /\ cc_pc' = [ cc_pc EXCEPT ![r] = "reflect" ]
                  /\ cc_strategy' = [ cc_strategy EXCEPT ![r] = "hybrid" ]
                  /\ UNCHANGED cc_step
             ELSE /\ cc_pc' = [ cc_pc EXCEPT ![r] = "loop" ]
                  /\ cc_step' = [ cc_step EXCEPT ![r] = @ + 1 ]
                  /\ UNCHANGED cc_strategy
       \/ /\ cc_pc' = [ cc_pc EXCEPT ![r] = "raised" ]
          /\ UNCHANGED <<cc_final_results, cc_heap, cc_step, cc_strategy>>
    /\ UNCHANGED <<cc_query, cc_max_steps, cc_memory, cc_trace, cc_returned>>
    /\ UNCHANGED not_cc

\* the hybrid tool of the reflection answers (or raises); break
CC_ReflectReturns(r) ==
    /\ cc_pc[r] = "reflect"
    /\ \/ /\ cc_final_results' =
                [ cc_final_results EXCEPT ![r] = ToolResult("hybrid") ]
          /\ cc_heap' = [ cc_heap EXCEPT ![cc_memory[r]] =
                            MemoryAdd(@, [ step |-> cc_step[r] + 1,
                                           strategy |-> "hybrid" ]) ]
          /\ cc_pc' = [ cc_pc EXCEPT ![r] = "finish" ]
       \/ /\ cc_pc' = [ cc_pc EXCEPT ![r] = "raised" ]
          /\ UNCHANGED <<cc_final_results, cc_heap>>
    /\ UNCHANGED <<cc_query, cc_max_steps, cc_step, cc_memory, cc_strategy,
                   cc_trace, cc_returned>>
    /\ UNCHANGED not_cc

\* the execution trace is read from memory.history and printed, and
\* final_results is returned (return_results = True)
CC_Return(r) ==
    /\ \/ cc_pc[r] = "finish"
       \/ cc_pc[r] = "loop" /\ cc_step[r] >= cc_max_steps[r]
    /\ cc_trace' = [ cc_trace EXCEPT ![r] = cc_heap[cc_memory[r]] ]
    /\ cc_returned' = [ cc_returned EXCEPT ![r] = cc_final_results[r] ]
    /\ cc_pc' = [ cc_pc EXCEPT ![r] = "done" ]
    /\ UNCHANGED <<cc_query, cc_max_steps, cc_step, cc_memory, cc_heap,
                   cc_strategy, cc_final_results>>
    /\ UNCHANGED not_cc

NextConcurrent ==
    \E r \in Runs :
        \/ CC_Start(r)
        \/ CC_Plan(r)
        \/ CC_ToolReturns(r)
        \/ CC_ReflectReturns(r)
        \/ CC_Return(r)

\* what a run on its own prints as its trace and returns
SoloTrace(query, max_steps) ==
    LET strategy == plan(query).strategy IN
    IF max_steps = 0 THEN <<>>
    ELSE IF strategy # "hybrid"
         THEN << [ step |-> 1, strategy |-> strategy ],
                 [ step |-> 1, strategy |-> "hybrid" ] >>
         ELSE [ k \in 1..max_steps |-> [ step |-> k, strategy |-> "hybrid" ] ]

SoloResult(query, max_steps) ==
    IF max_steps = 0 THEN NoneResult ELSE ToolResult("hybrid")

\* C24: two questions processed at once do not interfere: the runs hold
\* different RetrievalMemory objects, and a run that returns prints the
\* trace and returns the result that it produces when executed alone.
C24_RunsDoNotInterfere ==
    /\ \A r1, r2 \in Runs :
          (r1 # r2 /\ cc_memory[r1] # NoObject) => cc_memory[r1] # cc_memory[r2]
    /\ \A r \in Runs :
          cc_pc[r] = "done" =>
              /\ cc_trace[r] = SoloTrace(cc_query[r], cc_max_steps[r])
              /\ cc_returned[r] = SoloResult(cc_query[r], cc_max_steps[r])

\* Run 1 returned its two-entry trace while run 2, which had recorded its
\* planned step, was waiting for the hybrid tool of its reflection.
C24_Witness ==
    /\ cc_pc[1] = "done"
    /\ Len(cc_trace[1]) = 2
    /\ cc_pc[2] = "reflect"
    /\ Len(cc_heap[cc_memory[2]]) = 1

-----------------------------------------------------------------------------
(* The step budget                                                           *)

\* C25: for a query that plan() routes to hybrid no reflection is added and
\* the loop runs until the budget is used: with max_steps = m the returned
\* run's trace has exactly m entries, all hybrid, with step indices 1..m in
\* order, and the hybrid tool was dispatched exactly m times.
C25_HybridUsesWholeBudget ==
    (ag_pc = "done" /\ plan(ag_query).strategy = "hybrid")
    => /\ ag_memory = [ k \in 1..ag_max_steps |->
                          [ step |-> k, strategy |-> "hybrid" ] ]
       /\ ag_dispatched = [ k \in 1..ag_max_steps |->
                              ToolCall("hybrid", ag_query) ]

\* "cats" with a budget of 2 returned after two hybrid rounds.
C25_Witness ==
    /\ ag_pc = "done"
    /\ ag_query = W_cats
    /\ ag_max_steps = 2
    /\ ag_memory = << [ step |-> 1, strategy |-> "hybrid" ],
                      [ step |-> 2, strategy |-> "hybrid" ] >>
    /\ Len(ag_dispatched) = 2

-----------------------------------------------------------------------------
(* Failing tool calls                                                        *)

\* C26: a tool call that fails inside a planner step counts as "no results
\* for this step" and does not abort the loop: the exception never leaves
\* run_agentic_retrieval, and a run that dispatched a tool keeps its trace
\* and still returns.
C26_ToolFailureDoesNotAbort == ag_pc # "raised"

-----------------------------------------------------------------------------
(* Retrieval of the primary modality                                         *)

\* the score that analyze_query gave to its primary modality
PrimaryScore(analysis) ==
    analysis.modality_scores[
        CHOOSE i \in 1..3 : Modalities[i] = analysis.primary_modality ]

\* C27: when the classifier reports image or table as the primary modality
\* with a score above 0, retrieve performs that modality's retrieval
\* (should_retrieve_modality is true for the analysis's own primary
\* modality), and text is retrieved for every query.
C27_PrimaryModalityRetrieved ==
    mm_pc = "done" =>
        /\ "text" \in Range(mm_retrievals)
        /\ FloatGreater(PrimaryScore(mm_analysis), FloatZero) =>
              /\ should_retrieve_modality(mm_analysis.primary_modality,
                                          mm_analysis)
              /\ mm_analysis.primary_modality \in Range(mm_retrievals)

-----------------------------------------------------------------------------
(* The partition of the retrieved documents                                  *)

\* the k-th smallest element of a set of indices
NthOf(S, k) == CHOOSE i \in S : Cardinality({ j \in S : j < i }) = k - 1

\* the documents of a response at the indices S, in retrieval order
DocsAt(docs, S) == [ k \in 1..Cardinality(S) |-> docs[NthOf(S, k)] ]

\* C28: the first min(10, n) retrieved documents are split so that each is
\* in exactly one of the text list and the image list (image iff its
\* metadata has modality "image" or its content contains "Image:"), in
\* retrieval order inside each list; the returned source_chunks is the text
\* list followed by the image list, chunks_count = text_sources +
\* image_sources <= 10, and the generator is invoked only if generation is
\* enabled and at least one chunk exists.
C28_PartitionByModality ==
    si_pc = "done" =>
        LET raw    == si_responses[Len(si_responses)]
            docs   == raw.documents
            n      == IF Len(docs) < 10 THEN Len(docs) ELSE 10
            marked(i) ==
                \/ i <= Len(raw.metadatas) /\ raw.metadatas[i].modality = "image"
                \/ Contains(docs[i], K_ImageMarker)
            images == { i \in 1..n : marked(i) }
            texts  == { i \in 1..n : ~marked(i) }
            chunks == si_returned.source_chunks
        IN  /\ [ k \in DOMAIN si_text_chunks |-> si_text_chunks[k].text ]
                   = DocsAt(docs, texts)
            /\ [ k \in DOMAIN si_image_chunks |-> si_image_chunks[k].text ]
                   = DocsAt(docs, images)
            /\ \A k \in DOMAIN si_text_chunks : si_text_chunks[k].kind = "text"
            /\ \A k \in DOMAIN si_image_chunks : si_image_chunks[k].kind = "image"
            /\ chunks = si_text_chunks \o si_image_chunks
            /\ si_returned.text_sources = Cardinality(texts)
            /\ si_returned.image_sources = Cardinality(images)
            /\ si_returned.chunks_count
                   = si_returned.text_sources + si_returned.image_sources
            /\ si_returned.chunks_count = n
            /\ si_generated # <<>> =>
                   (si_generate_final_answer /\ si_returned.chunks_count >= 1)

\* A request returned a text chunk followed by an image chunk that only the
\* marker in its content identifies.
C28_Witness ==
    /\ si_pc = "done"
    /\ si_returned.text_sources = 1
    /\ si_returned.image_sources = 1
    /\ si_returned.source_chunks[2].text = Doc_image_marker
    /\ si_returned.source_chunks[2].metadata.modality # "image"

\* A request whose search answered eleven documents returned ten chunks.
C28_WitnessCut ==
    /\ si_pc = "done"
    /\ Len(si_responses[Len(si_responses)].documents) = 11
    /\ si_returned.chunks_count = 10

-----------------------------------------------------------------------------
(* The advanced retrieval pass (expand_query, hybrid_retrieve, cross_rerank) *)
(* as a function of the order in which list(set(expansions)) enumerates the *)
(* variants, of the collection's answers and of the scorer; two passes are  *)
(* run on the same query, collection and scorer.                            *)

\* hybrid_retrieve's loop: the (document, metadata) pairs of every variant's
\* answer, in the order of expanded_queries
RECURSIVE MergeAll(_, _)
MergeAll(expanded_queries, collection) ==
    IF expanded_queries = <<>> THEN <<>>
    ELSE LET res == collection[Head(expanded_queries)]
         IN  Zip(res.documents, res.metadatas)
             \o MergeAll(Tail(expanded_queries), collection)

\* hybrid_retrieve(collection, expanded_queries)
hybrid_retrieve(collection, expanded_queries) ==
    Deduplicate(MergeAll(expanded_queries, collection), <<>>, <<>>)

\* cross_rerank(query, docs) with a scorer that maps documents to scores
cross_rerank(scorer, docs) ==
    IF docs = <<>> THEN <<>>
    ELSE LET kept == Truncate(Sorted([ i \in DOMAIN docs |-> scorer[docs[i]] ]),
                              RR_DefaultTopK)
         IN  [ k \in DOMAIN kept |-> docs[kept[k]] ]

\* run_advanced_retrieval from the expansion on: the ranked documents and,
\* for each, metas[docs.index(doc)]
AdvancedPass(expanded, collection, scorer) ==
    LET retrieved   == hybrid_retrieve(collection, expanded)
        ranked_docs == cross_rerank(scorer, retrieved.docs)
    IN  [ ranked_docs |-> ranked_docs,
          metadata |->
              [ k \in DOMAIN ranked_docs |->
                  retrieved.metas[
                      CHOOSE i \in DOMAIN retrieved.docs :
                          /\ retrieved.docs[i] = ranked_docs[k]
                          /\ \A j \in 1..(i - 1) :
                                retrieved.docs[j] # ranked_docs[k] ] ] ]

\* the collections: an answer for each variant of the query
DT_Collections(query) == [ Range(Expansions(query)) -> AP_Responses ]

\* the scorers: a score for each document
DT_Scorers == [ RR_DocPool -> RR_Scores ]

DT_Init ==
    /\ dt_pc = "run"
    /\ dt_query = W_cats
    /\ dt_collection \in DT_Collections(W_cats)
    /\ dt_scorer \in DT_Scorers
    /\ dt_orders = <<>>
    /\ dt_results = <<>>

DT_Idle ==
    /\ dt_pc = "idle"
    /\ dt_query = <<>>
    /\ dt_collection = <<>>
    /\ dt_scorer = <<>>
    /\ dt_orders = <<>>
    /\ dt_results = <<>>

\* one call of run_advanced_retrieval(collection, query); the second call
\* is the last
DT_Run ==
    /\ dt_pc = "run"
    /\ \E expanded \in expand_query(dt_query) :
          /\ dt_orders' = Append(dt_orders, expanded)
          /\ dt_results' = Append(dt_results,
                 AdvancedPass(expanded, dt_collection, dt_scorer))
    /\ dt_pc' = IF dt_results = <<>> THEN "run" ELSE "done"
    /\ UNCHANGED <<dt_query, dt_collection, dt_scorer>>
    /\ UNCHANGED not_dt

NextDeterminism == DT_Run

\* C29: for a fixed collection and scorer, two passes on the same query
\* yield the same ordered documents and the same document-to-metadata
\* pairing, whatever the order in which the variants are enumerated.
C29_EvidenceIndependentOfOrder ==
    dt_pc = "done" => dt_results[1] = dt_results[2]

-----------------------------------------------------------------------------
(* utils/chunking.py: chunk_text                                             *)

\* the longest text, the largest chunk_size and the largest overlap (the
\* latter two are also taken negative down to -MaxOverlap)
MaxTextLen   == 4
MaxChunkSize == 3
MaxOverlap   == 2

\* the passes of the while loop that are followed; a call that ends at all
\* ends within len(text) passes
LoopCap == MaxTextLen + 1

\* a text in which every position has its own character
Alphabet == << "a", "b", "c", "d", "e", "f", "g", "h" >>

TextOfLen(n) == SubSeq(Alphabet, 1, n)

\* text[start:end] as Python slices: a negative limit counts from the end
\* of the text, and both limits are clamped to the text
Slice(text, start, end) ==
    LET len == Len(text)
        Clamp(i) == LET j == IF i < 0 THEN i + len ELSE i
                    IN  IF j < 0 THEN 0 ELSE IF j > len THEN len ELSE j
        s == Clamp(start)
        e == Clamp(end)
    IN  IF s >= e THEN <<>> ELSE SubSeq(text, s + 1, e)

CK_Init ==
    /\ ck_pc = "start"
    /\ ck_text \in { TextOfLen(n) : n \in 0..MaxTextLen }
    /\ ck_chunk_size \in (-MaxOverlap)..MaxChunkSize
    /\ ck_overlap \in (-MaxOverlap)..MaxOverlap
    /\ ck_start = 0
    /\ ck_starts = <<>>
    /\ ck_chunks = <<>>

CK_Idle ==
    /\ ck_pc = "idle"
    /\ ck_text = <<>>
    /\ ck_chunk_size = 0
    /\ ck_overlap = 0
    /\ ck_start = 0
    /\ ck_starts = <<>>
    /\ ck_chunks = <<>>

\* if not text: return []; otherwise chunks = [], start = 0
CK_Enter ==
    /\ ck_pc = "start"
    /\ ck_pc' = IF ck_text = <<>> THEN "done" ELSE "loop"
    /\ UNCHANGED <<ck_text, ck_chunk_size, ck_overlap, ck_start, ck_starts,
                   ck_chunks>>
    /\ UNCHANGED not_ck

\* A loop body that advances by chunk_size, without the overlap.
CK_Step_NoOverlap ==
    /\ ck_pc = "loop"
    /\ ck_start < Len(ck_text)
    /\ Len(ck_chunks) < LoopCap
    /\ ck_chunks' = Append(ck_chunks,
                           Slice(ck_text, ck_start, ck_start + ck_chunk_size))
    /\ ck_starts' = Append(ck_starts, ck_start)
    /\ ck_start' = ck_start + ck_chunk_size
    /\ UNCHANGED <<ck_pc, ck_text, ck_chunk_size, ck_overlap>>
    /\ UNCHANGED not_ck

\* one pass of `while start < len(text)`
CK_Step ==
    /\ ck_pc = "loop"
    /\ ck_start < Len(ck_text)
    /\ Len(ck_chunks) < LoopCap
    /\ ck_chunks' = Append(ck_chunks,
                           Slice(ck_text, ck_start, ck_start + ck_chunk_size))
    /\ ck_starts' = Append(ck_starts, ck_start)
    /\ ck_start' = ck_start + (ck_chunk_size - ck_overlap)
    /\ UNCHANGED <<ck_pc, ck_text, ck_chunk_size, ck_overlap>>
    /\ UNCHANGED not_ck

\* the loop test fails: return chunks
CK_Return ==
    /\ ck_pc = "loop"
    /\ ck_start >= Len(ck_text)
    /\ ck_pc' = "done"
    /\ UNCHANGED <<ck_text, ck_chunk_size, ck_overlap, ck_start, ck_starts,
                   ck_chunks>>
    /\ UNCHANGED not_ck

NextChunking == CK_Enter \/ CK_Step \/ CK_Return

\* the inputs on which the call is claimed to end
EndsOn == ck_text = <<>> \/ ck_chunk_size > ck_overlap

\* what is claimed of the chunks of a call that ended on a non-empty text
ChunksAreRegular ==
    /\ \A k \in DOMAIN ck_chunks :
          /\ Len(ck_chunks[k]) >= 1
          /\ Len(ck_chunks[k]) <= ck_chunk_size
    /\ \A k \in 1..(Len(ck_starts) - 1) :
          ck_starts[k + 1] - ck_starts[k] = ck_chunk_size - ck_overlap
    /\ \A p \in DOMAIN ck_text :
          \E k \in DOMAIN ck_chunks :
              /\ ck_starts[k] < p
              /\ p <= ck_starts[k] + Len(ck_chunks[k])
              /\ ck_chunks[k][p - ck_starts[k]] = ck_text[p]

\* C30 as stated: chunk_text terminates iff the text is empty or
\* chunk_size > overlap; when it terminates on a non-empty text every chunk
\* has a length between 1 and chunk_size, consecutive chunks start
\* chunk_size - overlap characters apart, and every character position of
\* the text is in at least one chunk.
C30_ChunkingAsStated ==
    /\ [](ck_pc = "done" => EndsOn)
    /\ ((ck_pc = "start" /\ EndsOn) ~> (ck_pc = "done"))
    /\ []((ck_pc = "done" /\ ck_text # <<>>) => ChunksAreRegular)

\* C30 amended: chunk_text terminates iff the text is empty or
\* chunk_size > overlap; when it terminates on a non-empty text and
\* overlap >= 0, every chunk has a length between 1 and chunk_size,
\* consecutive chunks start chunk_size - overlap characters apart, and every
\* character position of the text is in at least one chunk.
C30_ChunkingNonNegativeOverlap ==
    /\ [](ck_pc = "done" => EndsOn)
    /\ ((ck_pc = "start" /\ EndsOn) ~> (ck_pc = "done"))
    /\ []((ck_pc = "done" /\ ck_text # <<>> /\ ck_overlap >= 0)
             => ChunksAreRegular)

\* A text of four characters was cut with chunk_size 3 and overlap 2 into
\* the chunks at 0, 1, 2 and 3.
C30_Witness ==
    /\ ck_pc = "done"
    /\ Len(ck_text) = 4
    /\ ck_chunk_size = 3
    /\ ck_overlap = 2
    /\ ck_starts = << 0, 1, 2, 3 >>

-----------------------------------------------------------------------------
(* Specifications                                                          *)

InitAgentic == AG_Init /\ CR_Idle /\ HR_Idle /\ SI_Idle /\ AR_Idle /\ RR_Idle /\ RT_Idle /\ AP_Idle /\ RW_Idle /\ MM_Idle /\ CC_Idle /\ DT_Idle /\ CK_Idle
SpecAgentic == InitAgentic /\ [][NextAgentic]_vars

InitCritic == CR_Init /\ AG_Idle /\ HR_Idle /\ SI_Idle /\ AR_Idle /\ RR_Idle /\ RT_Idle /\ AP_Idle /\ RW_Idle /\ MM_Idle /\ CC_Idle /\ DT_Idle /\ CK_Idle
SpecCritic == InitCritic /\ [][NextCritic]_vars

InitHybrid == HR_Init /\ AG_Idle /\ CR_Idle /\ SI_Idle /\ AR_Idle /\ RR_Idle /\ RT_Idle /\ AP_Idle /\ RW_Idle /\ MM_Idle /\ CC_Idle /\ DT_Idle /\ CK_Idle
SpecHybrid == InitHybrid /\ [][NextHybrid]_vars

InitSelfImproving == SI_Init /\ AG_Idle /\ CR_Idle /\ HR_Idle /\ AR_Idle /\ RR_Idle /\ RT_Idle /\ AP_Idle /\ RW_Idle /\ MM_Idle /\ CC_Idle /\ DT_Idle /\ CK_Idle
SpecSelfImproving == InitSelfImproving /\ [][NextSelfImproving]_vars
\* the calls the pipeline makes return, so a started request runs on
SpecSelfImprovingLive == SpecSelfImproving /\ WF_vars(NextSelfImproving)

InitAdaptive == AR_Init /\ AG_Idle /\ CR_Idle /\ HR_Idle /\ SI_Idle /\ RR_Idle /\ RT_Idle /\ AP_Idle /\ RW_Idle /\ MM_Idle /\ CC_Idle /\ DT_Idle /\ CK_Idle
SpecAdaptive == InitAdaptive /\ [][NextAdaptive]_vars

InitRerank == RR_Init /\ AG_Idle /\ CR_Idle /\ HR_Idle /\ SI_Idle /\ AR_Idle /\ RT_Idle /\ AP_Idle /\ RW_Idle /\ MM_Idle /\ CC_Idle /\ DT_Idle /\ CK_Idle
SpecRerank == InitRerank /\ [][NextRerank]_vars

InitRouter == RT_Init /\ AG_Idle /\ CR_Idle /\ HR_Idle /\ SI_Idle /\ AR_Idle /\ RR_Idle /\ AP_Idle /\ RW_Idle /\ MM_Idle /\ CC_Idle /\ DT_Idle /\ CK_Idle
SpecRouter == InitRouter /\ [][NextRouter]_vars

InitAdvanced == AP_Init /\ AG_Idle /\ CR_Idle /\ HR_Idle /\ SI_Idle /\ AR_Idle /\ RR_Idle /\ RT_Idle /\ RW_Idle /\ MM_Idle /\ CC_Idle /\ DT_Idle /\ CK_Idle
SpecAdvanced == InitAdvanced /\ [][NextAdvanced]_vars

InitRewrite == RW_Init /\ AG_Idle /\ CR_Idle /\ HR_Idle /\ SI_Idle /\ AR_Idle /\ RR_Idle /\ RT_Idle /\ AP_Idle /\ MM_Idle /\ CC_Idle /\ DT_Idle /\ CK_Idle
SpecRewrite == InitRewrite /\ [][NextRewrite]_vars

InitMultimodal == MM_Init /\ AG_Idle /\ CR_Idle /\ HR_Idle /\ SI_Idle /\ AR_Idle /\ RR_Idle /\ RT_Idle /\ AP_Idle /\ RW_Idle /\ CC_Idle /\ DT_Idle /\ CK_Idle
SpecMultimodal == InitMultimodal /\ [][NextMultimodal]_vars

InitConcurrent == CC_Init /\ AG_Idle /\ CR_Idle /\ HR_Idle /\ SI_Idle /\ AR_Idle /\ RR_Idle /\ RT_Idle /\ AP_Idle /\ MM_Idle /\ RW_Idle /\ DT_Idle /\ CK_Idle
SpecConcurrent == InitConcurrent /\ [][NextConcurrent]_vars

InitDeterminism == DT_Init /\ AG_Idle /\ CR_Idle /\ HR_Idle /\ SI_Idle /\ AR_Idle /\ RR_Idle /\ RT_Idle /\ AP_Idle /\ MM_Idle /\ CC_Idle /\ RW_Idle /\ CK_Idle
SpecDeterminism == InitDeterminism /\ [][NextDeterminism]_vars

InitChunking == CK_Init /\ AG_Idle /\ CR_Idle /\ HR_Idle /\ SI_Idle /\ AR_Idle /\ RR_Idle /\ RT_Idle /\ AP_Idle /\ MM_Idle /\ CC_Idle /\ DT_Idle /\ RW_Idle
SpecChunking == InitChunking /\ [][NextChunking]_vars

SpecChunkingLive == SpecChunking /\ WF_vars(NextChunking)

=============================================================================
